---- MODULE Spec2Model ----
(***************************************************************************)
(* Model of the per-channel sequence tracker of the CBOE PITCH receiver    *)
(* (SequenceManager, sequence_tracker.cpp / sequence_tracker.h) and of the *)
(* SequenceTracker record of packet_types.h.                               *)
(*                                                                         *)
(* uint32_t arithmetic is kept modular.  The word is scaled down: MaxU32   *)
(* stands for std::numeric_limits<uint32_t>::max() and every uint32_t      *)
(* expression of the code is reduced modulo MaxU32 + 1.                    *)
(***************************************************************************)
EXTENDS Integers, FiniteSets, Sequences, TLC

\* ------------------------------------------------------------------ bounds
\* Scaled std::numeric_limits<uint32_t>::max().
MaxU32 == 4

\* Largest hdr_count drawn for a packet (uint8_t count in the code).
MaxCount == 2

\* Largest sequence drawn for packets received on the second port.
MaxSeq2 == 1

\* Number of datagrams the ingress delivers in one run of the pipeline.
MaxPackets == 3

\* Scaled Config::STATS_INTERVAL (100000) and Config::FLUSH_INTERVAL (1000000).
STATS_INTERVAL == 2
FLUSH_INTERVAL == 3

\* Scaled Config::ASYNC_QUEUE_SIZE (1024 * 1024 slots) and Config::ASYNC_THREADS
\* (4 writer threads).
ASYNC_QUEUE_SIZE == 1
ASYNC_THREADS == 2

\* Number of records submitted to the journal, and of explicit flushes,
\* in one run of the journal.
MaxRecords == 2
MaxFlushes == 1

\* Number of entries written to the log file that is read back.
MaxFileRecords == 2

\* Number of signals (SIGINT, SIGTERM) delivered to the launcher.
MaxSignals == 1

\* Config::LOG_FILE_SIZE (500 MiB) and Config::LOG_FILE_COUNT (50), scaled:
\* the unit of size is the shortest entry.
LOG_FILE_SIZE == 3
LOG_FILE_COUNT == 2

\* Number of entries written through the rotating file sink.
MaxWrites == 7

\* ------------------------------------------------------- program constants
PORT1 == 30501
PORT2 == 30502

Ports == {PORT1, PORT2}
Units == {0}
Channels == Ports \X Units

Seqs == 0 .. MaxU32
Counts == 0 .. MaxCount

\* The packets drawn as input: every (seq, count) on the first port, and the
\* single-message packets with a small sequence on the second port.
SeqsOn(port) == IF port = PORT1 THEN Seqs ELSE 0 .. MaxSeq2
CountsOn(port) == IF port = PORT1 THEN Counts ELSE {1}

\* enum class OrderStatus
UNSEQUENCED == 0
SEQUENCED_FIRST == 1
SEQUENCED_IN_ORDER == 2
SEQUENCED_OUT_OF_ORDER_LATE == 3
SEQUENCED_OUT_OF_ORDER_EARLY == 4
SEQUENCED_DUPLICATE == 5

\* Marker for a call that has not returned a value.
NoStatus == 99

VARIABLES
    trackers_,   \* SequenceManager::trackers_ : map (port, unit) -> SequenceTracker
    ret,         \* the last call made on the SequenceManager and what it returned
    hung,        \* TRUE once a call of determine_order_status no longer returns
    cleared,     \* history: TRUE once a clear() has removed the state of every channel
    covered,     \* history: per channel, the sequences covered by received packets
    firstSeq,    \* history: per channel, the sequence of its first packet (0: none)
    strict,      \* history: per channel, k if the packets so far were exactly
                 \* 1, 2, .., k with count 1, and -1 otherwise
    solo,        \* history: per channel, the tracker of a SequenceManager that
                 \* is given the packets of that channel only
    probe,       \* one call of validate_packet or classify_packet_type: its
                 \* arguments and what it returned
    stats_,      \* PacketProcessor::stats_ (the counters)
    packet_id,   \* NetworkHandler::start_capture : int packet_id
    buffer,      \* NetworkHandler::start_capture : char buffer[MAX_BUF], as the
                 \* datagram last received into it
    submitted,   \* the entries handed to binary_logger_->info, in call order
    warnings,    \* number of messages written by log_warning
    reports,     \* number of performance reports printed
    flushes,     \* number of calls of flush_logs
    invalid,     \* history: number of packets validate_packet rejected
    call,        \* history: the arguments of the last call of process_packet
    queue,       \* the message queue of the spdlog thread pool
    hand,        \* per writer thread, the message it has dequeued and not handled
    alive,       \* the writer threads that have not exited
    file,        \* the records appended to the log files, in write order
    todo,        \* the messages the calling thread still has to post
    closing,     \* TRUE once ~BinaryLogger has begun
    nsub,        \* number of records whose submission has returned
    nflush,      \* number of calls of BinaryLogger::flush
    stalled,     \* history: TRUE once a submission found the queue full
    roundtrip,   \* one log file: the entries written, its bytes, what is read back
    capturing_,  \* NetworkHandler::capturing_ (std::atomic<bool>)
    pc,          \* where the main thread of the UDP launcher is
    revents,     \* start_capture : fds[i].revents as the last poll left them
    fdi,         \* start_capture : the index i of the for loop
    last,        \* history: the last system call of the capture loop and its result
    signals,     \* number of signals handled by signal_handler
    steps,       \* history: the shutdown steps taken, in order
    sockets_open, \* TRUE while sock1_ and sock2_ are open
    exit_code,   \* the value main returned (-1: it has not returned)
    write_errors, \* number of writes of the sink that have failed
    logs,        \* the log files on disk: slot number -> the bytes of the file,
                 \* each byte named by the entry it belongs to (slot 0 is
                 \* packets_binary.log, slot k is packets_binary.k.log)
    current_size_, \* rotating_file_sink::current_size_
    rot,         \* rotate_: the slot the next rename fills (0: not renaming)
    held,        \* sink_it_: the entry that waits for the rotation to finish
    stream,      \* history: the bytes of all entries written, in write order
    zmq          \* the ZeroMQ launcher: ZmqNetworkHandler::running_, where the
                 \* capture thread and the signal handler are, and the locals
                 \* of capture_loop

\* The variables of the log file reader, of the capture loop and launcher,
\* and of the file sink.
ingressVars == <<capturing_, pc, revents, fdi, last, signals, steps, sockets_open,
                 exit_code>>

\* The variables of the rotating file sink.
rotationVars == <<logs, current_size_, rot, held, stream>>

sinkVars == <<write_errors, rotationVars>>

ioVars == <<roundtrip, zmq, ingressVars, sinkVars>>

\* The variables reading a log file back does not touch.
notReaderVars == <<trackers_, ret, hung, cleared, covered, firstSeq, strict, solo, probe,
                   stats_, packet_id, buffer, submitted, warnings, reports, flushes,
                   invalid, call, queue, hand, alive, file, todo, closing, nsub, nflush,
                   stalled, zmq, ingressVars, sinkVars>>

vars == <<trackers_, ret, hung, cleared, covered, firstSeq, strict, solo, probe,
          stats_, packet_id, buffer, submitted, warnings, reports, flushes, invalid, call,
          queue, hand, alive, file, todo, closing, nsub, nflush, stalled, ioVars>>

\* The variables of the asynchronous journal (spdlog thread pool and sink).
journalVars == <<queue, hand, alive, file, todo, closing, nsub, nflush, stalled>>

\* The variables the journal does not touch.
notJournalVars == <<trackers_, ret, hung, cleared, covered, firstSeq, strict, solo, probe,
                    stats_, packet_id, buffer, submitted, warnings, reports, flushes,
                    invalid, call, ioVars>>

\* The variables of the SequenceManager and the history kept about it.
managerVars == <<trackers_, ret, hung, cleared, covered, firstSeq, strict, solo>>

\* The variables the operations of the SequenceManager alone do not touch.
notManagerVars == <<probe, stats_, packet_id, buffer, submitted, warnings, reports,
                    flushes, invalid, call, journalVars, ioVars>>

\* The variables of the ingress loop and of the PacketProcessor.
pipelineVars == <<stats_, packet_id, buffer, submitted, warnings, reports, flushes,
                  invalid, call>>

\* uint32_t wrap-around
U32(x) == x % (MaxU32 + 1)

\* struct SequenceTracker, default member initialisers
SequenceTracker == [last_confirmed_seq |-> 0, highest_seen_seq |-> 0, pending_sequences |-> {}]

\* std::max
Max(a, b) == IF a >= b THEN a ELSE b

\* message_count with the overflow guard left out
MessageCount_NoGuard(seq, count) == IF count > 0 THEN count ELSE 1

\* message_count after the overflow guard
MessageCount(seq, count) ==
    LET message_count == IF count > 0 THEN count ELSE 1
    IN  IF seq > U32(U32(MaxU32 - message_count) + 1) THEN 1 ELSE message_count

\* the range end taken one too far
RangeEnd_OffByOne(seq, message_count) == U32(seq + message_count)

\* seq + message_count - 1 in uint32_t
RangeEnd(seq, message_count) == U32(U32(seq + message_count) - 1)

\* the scan stopping one past the end of the contiguous run
ConfirmedEnd_OnePast(pending, confirmed_end) ==
    LET run == {m \in confirmed_end .. MaxU32 : \A x \in confirmed_end + 1 .. m : x \in pending}
    IN  U32((CHOOSE m \in run : \A x \in run : x <= m) + 1)

\* while (pending.find(confirmed_end + 1) != end) confirmed_end++;
RECURSIVE ConfirmedEnd(_, _)
ConfirmedEnd(pending, confirmed_end) ==
    IF U32(confirmed_end + 1) \in pending
    THEN ConfirmedEnd(pending, U32(confirmed_end + 1))
    ELSE confirmed_end

\* for (uint32_t s = next_expected; s <= confirmed_end; s++) erase(s);
\* s <= confirmed_end is always true when confirmed_end is the largest
\* uint32_t: s wraps to 0 and the loop never ends.
EraseLoopEnds(confirmed_end) == confirmed_end < MaxU32

\* the absorption advancing last_confirmed_seq without erasing the run
Absorb_NoErase(last_confirmed, pending) ==
    LET next_expected == U32(last_confirmed + 1)
    IN  [last_confirmed_seq |-> IF next_expected \in pending
                                THEN ConfirmedEnd(pending, next_expected)
                                ELSE last_confirmed,
         pending_sequences |-> pending,
         returns |-> TRUE]

\* while (true) { ... } of the IN_ORDER branch, started with the given
\* last_confirmed_seq and pending set.
RECURSIVE Absorb(_, _)
Absorb(last_confirmed, pending) ==
    LET next_expected == U32(last_confirmed + 1)
    IN  IF next_expected \in pending
        THEN LET confirmed_end == ConfirmedEnd(pending, next_expected)
             IN  IF EraseLoopEnds(confirmed_end)
                 THEN Absorb(confirmed_end, pending \ (next_expected .. confirmed_end))
                 ELSE [last_confirmed_seq |-> confirmed_end,
                       pending_sequences |-> {},
                       returns |-> FALSE]
        ELSE [last_confirmed_seq |-> last_confirmed,
              pending_sequences |-> pending,
              returns |-> TRUE]

\* the lookup keyed by the unit alone: an entry of the same unit on another
\* port is taken for the entry of key
TrackerAt_UnitOnly(key) ==
    IF key \in DOMAIN trackers_ THEN trackers_[key]
    ELSE IF \E k \in DOMAIN trackers_ : k[2] = key[2]
         THEN trackers_[CHOOSE k \in DOMAIN trackers_ : k[2] = key[2]]
         ELSE SequenceTracker

\* trackers_[key] : the entry, default-constructed when absent
TrackerAt(key) == IF key \in DOMAIN trackers_ THEN trackers_[key] ELSE SequenceTracker

\* The map with the entry of key set to t (operator[] inserts the key).
WithTracker(key, t) == [k \in DOMAIN trackers_ \cup {key} |-> IF k = key THEN t ELSE trackers_[k]]

\* The effect of determine_order_status on the tracker of one channel:
\* the tracker afterwards, the value returned, and whether the call returns.
Determine(tracker, seq, count) ==
    LET message_count == MessageCount(seq, count)
        expected == U32(tracker.last_confirmed_seq + 1)
    IN  IF tracker.last_confirmed_seq = 0 /\ tracker.highest_seen_seq = 0
        THEN [tracker |-> [tracker EXCEPT !.last_confirmed_seq = RangeEnd(seq, message_count),
                                          !.highest_seen_seq = RangeEnd(seq, message_count)],
              status |-> SEQUENCED_FIRST, returns |-> TRUE]
        ELSE IF seq = expected
        THEN LET a == Absorb(RangeEnd(seq, message_count), tracker.pending_sequences)
             IN  [tracker |-> [tracker EXCEPT !.last_confirmed_seq = a.last_confirmed_seq,
                                              !.pending_sequences = a.pending_sequences],
                  status |-> IF a.returns THEN SEQUENCED_IN_ORDER ELSE NoStatus,
                  returns |-> a.returns]
        ELSE IF seq < expected
        THEN [tracker |-> tracker,
              status |-> IF seq <= tracker.last_confirmed_seq
                         THEN SEQUENCED_DUPLICATE
                         ELSE SEQUENCED_OUT_OF_ORDER_LATE,
              returns |-> TRUE]
        ELSE [tracker |-> [tracker EXCEPT
                  !.pending_sequences = @ \cup {U32(seq + i) : i \in 0 .. message_count - 1},
                  !.highest_seen_seq = Max(@, RangeEnd(seq, message_count))],
              status |-> SEQUENCED_OUT_OF_ORDER_EARLY, returns |-> TRUE]

\* The sequences a packet (s, count) covers: s .. s + max(count, 1) - 1.
Covers(seq, count) == {x \in 1 .. MaxU32 : seq <= x /\ x <= seq + Max(count, 1) - 1}

Call(seq, count, port, unit, status) ==
    [op |-> "determine_order_status", seq |-> seq, count |-> count,
     port |-> port, unit |-> unit, status |-> status]

\* SequenceManager after construction: no tracker.
ManagerInit ==
    /\ trackers_ = << >>
    /\ ret = [op |-> "init", seq |-> 0, count |-> 0, port |-> 0, unit |-> 0, status |-> NoStatus]
    /\ hung = FALSE
    /\ cleared = FALSE
    /\ covered = [c \in Channels |-> {}]
    /\ firstSeq = [c \in Channels |-> 0]
    /\ strict = [c \in Channels |-> 0]
    /\ solo = [c \in Channels |-> SequenceTracker]

(***************************************************************************)
(* Packet validation and classification (pure functions).                  *)
(***************************************************************************)

\* Config::MAX_BUF
MAX_BUF == 2048

\* sizeof(CboeSequencedUnitHeader): uint16 + uint8 + uint8 + uint32, packed.
HeaderSize == 8

\* validate_packet: how far the declared length may exceed the received one.
LengthTolerance == 100

\* classify_packet_type: the longest datagram still taken for a heartbeat.
HeartbeatMaxLen == 20

\* enum class PacketType
PacketType_HEARTBEAT   == 0
PacketType_ADMIN       == 1
PacketType_UNSEQUENCED == 2
PacketType_DATA        == 3

\* hdr_length travels as two bytes, least significant first.
le16toh_safe(val) == val[1] + 256 * val[2]

\* The two wire bytes of a 16-bit value (what the sender does).
WireBytes16(v) == <<v % 256, v \div 256>>

validate_packet_NoTolerance(buf, len) ==
    IF len < HeaderSize THEN FALSE
    ELSE LET declared_length == le16toh_safe(buf.hdr_length)
         IN  IF declared_length = 0 \/ declared_length > MAX_BUF THEN FALSE
             ELSE IF declared_length > len THEN FALSE
             ELSE TRUE

validate_packet_NoUpperBound(buf, len) ==
    IF len < HeaderSize THEN FALSE
    ELSE LET declared_length == le16toh_safe(buf.hdr_length)
         IN  IF declared_length = 0 THEN FALSE
             ELSE IF declared_length > len + LengthTolerance THEN FALSE
             ELSE TRUE

\* PacketProcessor::validate_packet.  The header is read only when the
\* datagram is long enough to hold one.
validate_packet(buf, len) ==
    IF len < HeaderSize THEN FALSE
    ELSE LET declared_length == le16toh_safe(buf.hdr_length)
         IN  IF declared_length = 0 \/ declared_length > MAX_BUF THEN FALSE
             ELSE IF declared_length > len + LengthTolerance THEN FALSE
             ELSE TRUE

classify_packet_type_Below20(seq, count, len) ==
    IF seq = 0
    THEN IF count = 0 /\ len < HeartbeatMaxLen THEN PacketType_HEARTBEAT
         ELSE IF count = 0 THEN PacketType_ADMIN
         ELSE PacketType_UNSEQUENCED
    ELSE PacketType_DATA

\* classify_packet_type
classify_packet_type(seq, count, len) ==
    IF seq = 0
    THEN IF count = 0 /\ len <= HeartbeatMaxLen THEN PacketType_HEARTBEAT
         ELSE IF count = 0 THEN PacketType_ADMIN
         ELSE PacketType_UNSEQUENCED
    ELSE PacketType_DATA

\* Arguments the two functions are applied to: the received lengths and the
\* declared lengths on both sides of every comparison the code makes.
ProbeLens == {0, 7, 8, 9, 19, 20, 21, 1947, 1948, 1949, 2048}
ProbeHdrLengths == {0, 1, 8, 108, 109, 120, 2048, 2049, 65535}
ProbeSeqs == {0, 1, MaxU32}
ProbeCounts == {0, 1, 255}

\* No call of validate_packet or classify_packet_type is under way.
NoProbe ==
    probe = [op |-> "none", buffer |-> [hdr_length |-> <<0, 0>>], len |-> 0,
             seq |-> 0, count |-> 0, valid |-> FALSE, packet_type |-> 0]

(***************************************************************************)
(* The asynchronous journal: binary_logger_ is a spdlog::async_logger on   *)
(* the thread pool created by init_thread_pool(ASYNC_QUEUE_SIZE,           *)
(* ASYNC_THREADS), with async_overflow_policy::block and one               *)
(* rotating_file_sink_mt.  The calling thread posts messages (a record, a  *)
(* flush request, or on shutdown one terminate message per writer) to a    *)
(* bounded FIFO queue; a post on a full queue waits.  Each writer thread   *)
(* takes the message at the head of the queue and then handles it: a       *)
(* record is written through the sink (whose mutex makes a write atomic),  *)
(* a terminate message makes the thread exit.  A record is named by the    *)
(* number of its submission.                                               *)
(***************************************************************************)

Workers == 1 .. ASYNC_THREADS

NoMsg == [type |-> "none", id |-> 0]
LogMsg(id) == [type |-> "log", id |-> id]
FlushMsg == [type |-> "flush", id |-> 0]
TerminateMsg == [type |-> "terminate", id |-> 0]

\* The ids of the records among a sequence of messages.
RecordsIn(q) == {q[i].id : i \in {j \in 1 .. Len(q) : q[j].type = "log"}}

\* BinaryLogger::BinaryLogger / init_logging: empty queue, all writers running.
JournalInit ==
    /\ queue = << >>
    /\ hand = [w \in Workers |-> NoMsg]
    /\ alive = Workers
    /\ file = << >>
    /\ todo = << >>
    /\ closing = FALSE
    /\ nsub = 0
    /\ nflush = 0
    /\ stalled = FALSE

post_async_msg_OverrunOldest(q, m) ==
    [ok |-> TRUE,
     queue |-> IF Len(q) < ASYNC_QUEUE_SIZE THEN Append(q, m) ELSE Append(Tail(q), m)]

\* Posting a message under async_overflow_policy::block: possible only while
\* the queue has a free slot; the message goes to the tail.
post_async_msg(q, m) ==
    [ok |-> Len(q) < ASYNC_QUEUE_SIZE, queue |-> Append(q, m)]

sink_it_NoWrite(f, id) == f

\* rotating_file_sink::sink_it_: the record is appended to the current file.
sink_it(f, id) == Append(f, id)

\* log_packet calls binary_logger_->info(log_entry).
BeginInfo ==
    /\ ~closing
    /\ todo = << >>
    /\ nsub < MaxRecords
    /\ todo' = <<LogMsg(nsub + 1)>>
    /\ stalled' = (stalled \/ Len(queue) = ASYNC_QUEUE_SIZE)
    /\ UNCHANGED <<queue, hand, alive, file, closing, nsub, nflush>>
    /\ UNCHANGED notJournalVars

\* BinaryLogger::flush calls binary_logger_->flush().
BeginFlush ==
    /\ ~closing
    /\ todo = << >>
    /\ nflush < MaxFlushes
    /\ todo' = <<FlushMsg>>
    /\ nflush' = nflush + 1
    /\ UNCHANGED <<queue, hand, alive, file, closing, nsub, stalled>>
    /\ UNCHANGED notJournalVars

\* ~BinaryLogger: flush, then spdlog::shutdown, which destroys the thread
\* pool: one terminate message per writer thread is posted, then the threads
\* are joined.
BeginShutdown ==
    /\ ~closing
    /\ todo = << >>
    /\ closing' = TRUE
    /\ todo' = <<FlushMsg>> \o [w \in Workers |-> TerminateMsg]
    /\ UNCHANGED <<queue, hand, alive, file, nsub, nflush, stalled>>
    /\ UNCHANGED notJournalVars

\* The calling thread gets its next message into the queue.
Post ==
    /\ todo # << >>
    /\ LET p == post_async_msg(queue, Head(todo))
       IN  /\ p.ok
           /\ queue' = p.queue
    /\ todo' = Tail(todo)
    /\ nsub' = IF Head(todo).type = "log" THEN nsub + 1 ELSE nsub
    /\ UNCHANGED <<hand, alive, file, closing, nflush, stalled>>
    /\ UNCHANGED notJournalVars

\* thread_pool::process_next_msg_: a writer takes the head of the queue.
Dequeue(w) ==
    /\ w \in alive
    /\ hand[w] = NoMsg
    /\ queue # << >>
    /\ hand' = [hand EXCEPT ![w] = Head(queue)]
    /\ queue' = Tail(queue)
    /\ UNCHANGED <<alive, file, todo, closing, nsub, nflush, stalled>>
    /\ UNCHANGED notJournalVars

\* thread_pool::process_next_msg_: the writer handles the message it took.
Handle(w) ==
    /\ hand[w] # NoMsg
    /\ hand' = [hand EXCEPT ![w] = NoMsg]
    /\ file' = IF hand[w].type = "log" THEN sink_it(file, hand[w].id) ELSE file
    /\ alive' = IF hand[w].type = "terminate" THEN alive \ {w} ELSE alive
    /\ UNCHANGED <<queue, todo, closing, nsub, nflush, stalled>>
    /\ UNCHANGED notJournalVars

(***************************************************************************)
(* Ingress loop, PacketProcessor::process_packet and BinaryLogger::log_packet. *)
(* The journal is looked at where log_packet hands the entry to spdlog.    *)
(* A datagram is a record: the header fields, the received length and     *)
(* `body`, which stands for the bytes after the header.  hdr_sequence is   *)
(* the number its four little-endian bytes denote (the word is scaled).    *)
(* The timestamp of a record is left out.                                  *)
(***************************************************************************)

\* Config::SKIP_HEARTBEATS
SKIP_HEARTBEATS_Off == FALSE

SKIP_HEARTBEATS == TRUE

\* log_packet: the number of leading bytes of a packet kept in its entry.
MaxPayload == 256

\* sizeof(BinaryLogRecord), packed: 8 + 4 + 4 + 4 + 2 + 2 + 1 + 1 + 1 + 1 + 2.
RecordSize == 30

Min(a, b) == IF a <= b THEN a ELSE b

\* static_cast<uint16_t>
U16(x) == x % 65536

\* PacketProcessor::Statistics after construction.
Statistics ==
    [total_packets |-> 0, heartbeats_skipped |-> 0, data_packets |-> 0,
     admin_packets |-> 0, unsequenced_packets |-> 0, out_of_order_packets |-> 0,
     duplicate_packets |-> 0]

Datagram(len, hdr_length, hdr_count, hdr_unit, hdr_sequence, body) ==
    [len |-> len, hdr_length |-> WireBytes16(hdr_length), hdr_count |-> hdr_count,
     hdr_unit |-> hdr_unit, hdr_sequence |-> hdr_sequence, body |-> body]

\* What the receive buffer holds before the first datagram.
NoDatagram == Datagram(0, 0, 0, 0, 0, 0)

\* The sender address as inet_ntoa prints it: four decimal numbers.
SrcIps == {<<10, 1, 2, 3>>}

\* The string "zmq_push" the ZeroMQ capture loop passes as the sender address:
\* a string that is not four decimal numbers.
ZmqPush == << >>

\* ip_to_binary: 0 when inet_aton rejects the string; otherwise inet_aton
\* keeps the four bytes in network order (s_addr).
ip_to_binary(ip_str) ==
    IF Len(ip_str) # 4 THEN 0
    ELSE ip_str[1] + 256 * ip_str[2] + 65536 * ip_str[3] + 16777216 * ip_str[4]

\* The datagrams delivered on a port: rejected ones (too short, declared
\* length 0, above MAX_BUF, above len + 100), a heartbeat, an admin and an
\* unsequenced packet, and data packets at both ends of the sequence space,
\* shorter than, equal to and longer than the stored payload.
DatagramsOn(port) ==
    IF port = PORT1
    THEN { Datagram(7, 7, 0, 0, 0, 1),
           Datagram(8, 0, 0, 0, 1, 1),
           Datagram(1949, 2049, 1, 0, 1, 1),
           Datagram(8, 109, 1, 0, 1, 1),
           Datagram(20, 20, 0, 0, 0, 1),
           Datagram(21, 21, 0, 0, 0, 1),
           Datagram(40, 40, 1, 0, 0, 1),
           Datagram(300, 300, 1, 0, 1, 1),
           Datagram(300, 300, 1, 0, 1, 2),
           Datagram(256, 256, 1, 0, 2, 1),
           Datagram(255, 255, 1, 0, MaxU32 - 1, 1),
           Datagram(8, 108, 1, 0, MaxU32, 1) }
    ELSE { Datagram(7, 7, 0, 0, 0, 1),
           Datagram(20, 20, 0, 0, 0, 1),
           Datagram(64, 64, 1, 0, 1, 1) }

\* The first n bytes of the buffer, copied.
FirstBytes(buf, n) ==
    [n |-> n, hdr_length |-> buf.hdr_length, hdr_count |-> buf.hdr_count,
     hdr_unit |-> buf.hdr_unit, hdr_sequence |-> buf.hdr_sequence, body |-> buf.body]

log_packet_NoLimit(pid, port, buf, len, sequence, count, unit, packet_type, order_status, src_ip) ==
    LET payload_length == len
    IN  [record |-> [packet_id |-> pid, sequence |-> sequence, src_ip |-> src_ip,
                     port |-> port, length |-> len, count |-> count, unit |-> unit,
                     packet_type |-> packet_type, order_status |-> order_status,
                     payload_length |-> payload_length],
         payload |-> FirstBytes(buf, payload_length)]

\* BinaryLogger::log_packet: the std::string handed to binary_logger_->info,
\* the packed record followed by the first payload_length bytes of the buffer.
log_packet(pid, port, buf, len, sequence, count, unit, packet_type, order_status, src_ip) ==
    LET payload_length == Min(len, MaxPayload)
    IN  [record |-> [packet_id |-> pid, sequence |-> sequence, src_ip |-> src_ip,
                     port |-> port, length |-> len, count |-> count, unit |-> unit,
                     packet_type |-> packet_type, order_status |-> order_status,
                     payload_length |-> payload_length],
         payload |-> FirstBytes(buf, payload_length)]

CountPacketType_NoAdmin(stats, packet_type) ==
    IF packet_type = PacketType_DATA THEN [stats EXCEPT !.data_packets = @ + 1]
    ELSE IF packet_type = PacketType_UNSEQUENCED THEN [stats EXCEPT !.unsequenced_packets = @ + 1]
    ELSE stats

\* process_packet: the first switch, for a packet that is not skipped.
CountPacketType(stats, packet_type) ==
    IF packet_type = PacketType_DATA THEN [stats EXCEPT !.data_packets = @ + 1]
    ELSE IF packet_type = PacketType_ADMIN THEN [stats EXCEPT !.admin_packets = @ + 1]
    ELSE IF packet_type = PacketType_UNSEQUENCED THEN [stats EXCEPT !.unsequenced_packets = @ + 1]
    ELSE stats

\* the second switch with the duplicates counted as out of order as well
CountOrderStatus_DuplicateAsOutOfOrder(stats, order_status) ==
    IF order_status \in {SEQUENCED_OUT_OF_ORDER_EARLY, SEQUENCED_OUT_OF_ORDER_LATE,
                         SEQUENCED_DUPLICATE}
    THEN [stats EXCEPT !.out_of_order_packets = @ + 1]
    ELSE stats

\* process_packet: the second switch.
CountOrderStatus(stats, order_status) ==
    IF order_status \in {SEQUENCED_OUT_OF_ORDER_EARLY, SEQUENCED_OUT_OF_ORDER_LATE}
    THEN [stats EXCEPT !.out_of_order_packets = @ + 1]
    ELSE IF order_status = SEQUENCED_DUPLICATE
    THEN [stats EXCEPT !.duplicate_packets = @ + 1]
    ELSE stats

\* PacketProcessor::should_report_statistics
should_report_statistics(stats) ==
    stats.total_packets % STATS_INTERVAL = 0 /\ stats.total_packets > 0

\* PacketProcessor::process_packet.  When determine_order_status does not
\* return, nothing after the call happens.
process_packet(pid, port, buf, len, src_ip) ==
    LET counted == [stats_ EXCEPT !.total_packets = @ + 1]
    IN  IF ~validate_packet(buf, len)
        THEN /\ stats_' = counted
             /\ warnings' = warnings + 1
             /\ invalid' = invalid + 1
             /\ UNCHANGED <<trackers_, hung, submitted, reports, flushes>>
        ELSE LET sequence == buf.hdr_sequence
                 count == buf.hdr_count
                 unit == buf.hdr_unit
                 packet_type == classify_packet_type(sequence, count, len)
             IN  IF packet_type = PacketType_HEARTBEAT /\ SKIP_HEARTBEATS
                 THEN /\ stats_' = [counted EXCEPT !.heartbeats_skipped = @ + 1]
                      /\ UNCHANGED <<trackers_, hung, submitted, warnings, invalid,
                                     reports, flushes>>
                 ELSE LET typed == CountPacketType(counted, packet_type)
                          key == <<port, unit>>
                          d == IF sequence = 0
                               THEN [tracker |-> SequenceTracker, status |-> UNSEQUENCED,
                                     returns |-> TRUE]
                               ELSE Determine(TrackerAt(key), sequence, count)
                      IN  /\ trackers_' = IF sequence = 0 THEN trackers_
                                          ELSE WithTracker(key, d.tracker)
                          /\ hung' = ~d.returns
                          /\ UNCHANGED <<warnings, invalid>>
                          /\ IF d.returns
                             THEN LET final == CountOrderStatus(typed, d.status)
                                  IN  /\ stats_' = final
                                      /\ submitted' = Append(submitted,
                                             log_packet(pid, U16(port), buf, U16(len), sequence,
                                                        count, unit, packet_type, d.status,
                                                        ip_to_binary(src_ip)))
                                      /\ reports' = IF should_report_statistics(final)
                                                    THEN reports + 1 ELSE reports
                                      /\ flushes' = IF final.total_packets % FLUSH_INTERVAL = 0
                                                    THEN flushes + 1 ELSE flushes
                             ELSE /\ stats_' = typed
                                  /\ UNCHANGED <<submitted, reports, flushes>>

NextPacketId_Stuck(id) == id

\* start_capture: packet_id++
NextPacketId(id) == id + 1

\* start_capture has set packet_id to 0; the PacketProcessor is constructed.
PipelineInit ==
    /\ stats_ = Statistics
    /\ packet_id = 0
    /\ buffer = NoDatagram
    /\ submitted = << >>
    /\ warnings = 0
    /\ reports = 0
    /\ flushes = 0
    /\ invalid = 0
    /\ call = [packet_id |-> 0, port |-> 0, buffer |-> NoDatagram, len |-> 0,
               src_ip |-> <<0, 0, 0, 0>>]

(***************************************************************************)
(* The rotating file sink of the binary logger, created as                 *)
(* rotating_file_sink_mt("packets_binary.log", LOG_FILE_SIZE,              *)
(* LOG_FILE_COUNT).  sink_it_ runs under the mutex of the sink.  Before a  *)
(* write that would take the file above the maximum size, a file that is   *)
(* not empty is rotated: for i from the number of files down to 1, slot    *)
(* i - 1 is renamed to slot i (an existing slot i is removed first), then  *)
(* the base file is opened anew, empty.  A write that fails throws in the  *)
(* writer thread; the logger catches it and calls its error handler.       *)
(***************************************************************************)

\* The sizes of the entries written.
EntrySizes == {1, 2}

NoEntry == [id |-> 0, size |-> 0]

\* The bytes of an entry.
EntryOf(id, size) == [k \in 1 .. size |-> id]

\* The number the next entry gets.
NextEntryId == IF held # NoEntry THEN held.id + 1
               ELSE IF stream = << >> THEN 1 ELSE stream[Len(stream)] + 1

\* The sink has opened packets_binary.log, empty.
SinkInit ==
    /\ write_errors = 0
    /\ logs = (0 :> << >>)
    /\ current_size_ = 0
    /\ rot = 0
    /\ held = NoEntry
    /\ stream = << >>

NeedsRotation_AfterWrite(size) == current_size_ > LOG_FILE_SIZE

\* sink_it_: new_size = current_size_ + formatted.size(); new_size > max_size_
NeedsRotation(size) == current_size_ + size > LOG_FILE_SIZE

\* rename_file_: the target is removed, then the source gets its name.
rename_file(fs, src, target) ==
    [k \in (DOMAIN fs \ {src}) \cup {target} |-> IF k = target THEN fs[src] ELSE fs[k]]

\* sink_it_ for one entry: it is written to the current file, or the
\* rotation begins with the current file closed.
sink_it_(size) ==
    /\ rot = 0
    /\ held = NoEntry
    /\ NextEntryId <= MaxWrites
    /\ IF NeedsRotation(size) /\ Len(logs[0]) > 0
       THEN /\ rot' = LOG_FILE_COUNT
            /\ held' = [id |-> NextEntryId, size |-> size]
            /\ UNCHANGED <<logs, current_size_, stream>>
       ELSE /\ logs' = [logs EXCEPT ![0] = @ \o EntryOf(NextEntryId, size)]
            /\ current_size_' = current_size_ + size
            /\ stream' = stream \o EntryOf(NextEntryId, size)
            /\ UNCHANGED <<rot, held>>
    /\ UNCHANGED <<managerVars, probe, pipelineVars, journalVars, roundtrip, zmq, ingressVars,
                   write_errors>>

\* rotate_: one pass of the loop, for i = rot.
rotate_ ==
    /\ rot > 0
    /\ logs' = IF rot - 1 \in DOMAIN logs THEN rename_file(logs, rot - 1, rot) ELSE logs
    /\ rot' = rot - 1
    /\ UNCHANGED <<current_size_, held, stream>>
    /\ UNCHANGED <<managerVars, probe, pipelineVars, journalVars, roundtrip, zmq, ingressVars,
                   write_errors>>

\* rotate_: file_helper_.reopen(true), then sink_it_ writes the entry to the
\* new file.
reopen ==
    /\ rot = 0
    /\ held # NoEntry
    /\ logs' = (0 :> EntryOf(held.id, held.size)) @@ logs
    /\ current_size_' = held.size
    /\ stream' = stream \o EntryOf(held.id, held.size)
    /\ held' = NoEntry
    /\ UNCHANGED rot
    /\ UNCHANGED <<managerVars, probe, pipelineVars, journalVars, roundtrip, zmq, ingressVars,
                   write_errors>>

\* thread_pool::process_next_msg_: the write of the record the writer took
\* throws.  async_logger::backend_sink_it_ catches the exception and calls
\* the error handler of the logger (none is installed: the default prints
\* to stderr); the writer goes on with the next message.
HandleFails(w) ==
    /\ hand[w].type = "log"
    /\ hand' = [hand EXCEPT ![w] = NoMsg]
    /\ write_errors' = write_errors + 1
    /\ UNCHANGED <<queue, alive, file, todo, closing, nsub, nflush, stalled>>
    /\ UNCHANGED <<managerVars, probe, pipelineVars, roundtrip, zmq, ingressVars, rotationVars>>

(***************************************************************************)
(* NetworkHandler::start_capture / stop_capture and main of the UDP        *)
(* launcher.  pc is the position of the main thread: "main" (components    *)
(* constructed, start_capture not yet called), "while" (at the loop        *)
(* test), "poll" (in poll), "for" (in the for loop, at index fdi),         *)
(* "returned" (start_capture has returned) and then one value per step of  *)
(* the cleanup.  poll and recvmsg are system calls: their results are      *)
(* chosen among what the kernel can return.  The signal handler runs       *)
(* between any two steps of the main thread.                               *)
(***************************************************************************)

Fds == {0, 1}

POLLIN == "POLLIN"
POLLERR == "POLLERR"
POLLHUP == "POLLHUP"
POLLNVAL == "POLLNVAL"

\* start_capture: fds[i].revents & (POLLERR | POLLHUP | POLLNVAL)
ErrorEvents == {POLLERR, POLLHUP, POLLNVAL}

\* What poll can report for one descriptor whose events are POLLIN.
Revents == {{}, {POLLIN}, {POLLIN, POLLERR}, {POLLHUP}, {POLLNVAL}}

\* The results of poll with ready > 0: some descriptor has an event.
PollResults == {r \in [Fds -> Revents] : \E i \in Fds : r[i] # {}}

\* The errors poll and recvmsg are made to fail with.
PollErrnos == {"EINTR", "ENOMEM"}
RecvErrnos == {"EINTR", "EAGAIN", "EWOULDBLOCK", "ECONNREFUSED"}

IsTransient_OnlyEINTR(errno) == errno = "EINTR"

\* start_capture: errno == EINTR || errno == EAGAIN || errno == EWOULDBLOCK
IsTransient(errno) == errno \in {"EINTR", "EAGAIN", "EWOULDBLOCK"}

\* start_capture: (fds[i].fd == sock1_) ? Config::PORT1 : Config::PORT2
PortOf(i) == IF i = 0 THEN PORT1 ELSE PORT2

\* The datagrams the sockets receive while the loop runs: a rejected one and
\* a data packet on the first port, a data packet on the second.
CaptureDatagramsOn(port) ==
    IF port = PORT1
    THEN { Datagram(7, 7, 0, 0, 0, 1),
           Datagram(300, 300, 1, 0, 1, 1) }
    ELSE { Datagram(64, 64, 1, 0, 1, 1) }

NoCall == [call |-> "none", result |-> "none"]

\* The steps of the cleanup in main, in program order.
ShutdownSteps ==
    <<"loop_exit", "flush_logs", "final_report", "sockets_closed", "journal_torn_down",
      "exit">>

\* main has constructed the PacketProcessor and the NetworkHandler
\* (capturing_(false), both sockets open).
IngressInit ==
    /\ capturing_ = FALSE
    /\ pc = "main"
    /\ revents = [i \in Fds |-> {}]
    /\ fdi = 0
    /\ last = NoCall
    /\ signals = 0
    /\ steps = << >>
    /\ sockets_open = TRUE
    /\ exit_code = -1

\* signal_handler: g_network_handler->stop_capture(), while g_network_handler
\* is set.
SignalHandler ==
    /\ pc \notin {"net_reset", "proc_reset", "exit"}
    /\ signals < MaxSignals
    /\ signals' = signals + 1
    /\ capturing_' = FALSE
    /\ UNCHANGED <<pc, revents, fdi, last, steps, sockets_open, exit_code>>
    /\ UNCHANGED <<managerVars, probe, pipelineVars, journalVars, roundtrip, zmq, sinkVars>>

\* start_capture, up to the loop: capturing_ = true; packet_id = 0.
StartCapture ==
    /\ pc = "main"
    /\ capturing_' = TRUE
    /\ packet_id' = 0
    /\ pc' = "while"
    /\ UNCHANGED <<revents, fdi, last, signals, steps, sockets_open, exit_code>>
    /\ UNCHANGED <<managerVars, probe, stats_, buffer, submitted, warnings, reports,
                   flushes, invalid, call, journalVars, roundtrip, zmq, sinkVars>>

\* while (capturing_)
LoopTest ==
    /\ pc = "while"
    /\ ~hung
    /\ pc' = IF capturing_ THEN "poll" ELSE "returned"
    /\ steps' = IF capturing_ THEN steps ELSE Append(steps, "loop_exit")
    /\ UNCHANGED <<capturing_, revents, fdi, last, signals, sockets_open, exit_code>>
    /\ UNCHANGED <<managerVars, probe, pipelineVars, journalVars, roundtrip, zmq, sinkVars>>

\* poll(fds, 2, 100) returns -1: EINTR continues, any other error breaks.
PollFails(errno) ==
    /\ pc = "poll"
    /\ last' = [call |-> "poll", result |-> errno]
    /\ pc' = IF errno = "EINTR" THEN "while" ELSE "returned"
    /\ steps' = IF errno = "EINTR" THEN steps ELSE Append(steps, "loop_exit")
    /\ UNCHANGED <<capturing_, revents, fdi, signals, sockets_open, exit_code>>
    /\ UNCHANGED <<managerVars, probe, pipelineVars, journalVars, roundtrip, zmq, sinkVars>>

\* poll returns 0 after 100 ms.
PollTimeout ==
    /\ pc = "poll"
    /\ last' = [call |-> "poll", result |-> "timeout"]
    /\ revents' = [i \in Fds |-> {}]
    /\ pc' = "while"
    /\ UNCHANGED <<capturing_, fdi, signals, steps, sockets_open, exit_code>>
    /\ UNCHANGED <<managerVars, probe, pipelineVars, journalVars, roundtrip, zmq, sinkVars>>

\* poll returns the number of descriptors with events; the for loop begins.
PollReady(r) ==
    /\ pc = "poll"
    /\ last' = [call |-> "poll", result |-> "ready"]
    /\ revents' = r
    /\ fdi' = 0
    /\ pc' = "for"
    /\ UNCHANGED <<capturing_, signals, steps, sockets_open, exit_code>>
    /\ UNCHANGED <<managerVars, probe, pipelineVars, journalVars, roundtrip, zmq, sinkVars>>

\* The end of one iteration of the for loop.  `check` is FALSE when the
\* iteration was left by `continue`, before the check for error events.
EndOfIteration(i, check) ==
    IF check /\ revents[i] \cap ErrorEvents # {}
    THEN /\ capturing_' = FALSE
         /\ fdi' = 0
         /\ pc' = "while"
    ELSE /\ capturing_' = capturing_
         /\ fdi' = IF i = 1 THEN 0 ELSE i + 1
         /\ pc' = IF i = 1 THEN "while" ELSE "for"

\* fds[i] has POLLIN and recvmsg returns len > 0: the callback is called,
\* then the error events are checked.
RecvDatagram(datagram, src_ip) ==
    /\ pc = "for"
    /\ POLLIN \in revents[fdi]
    /\ stats_.total_packets < MaxPackets
    /\ datagram \in CaptureDatagramsOn(PortOf(fdi))
    /\ datagram.len > 0
    /\ last' = [call |-> "recvmsg", result |-> "datagram"]
    /\ packet_id' = NextPacketId(packet_id)
    /\ buffer' = datagram
    /\ call' = [packet_id |-> packet_id', port |-> PortOf(fdi), buffer |-> buffer',
                len |-> datagram.len, src_ip |-> src_ip]
    /\ process_packet(packet_id', PortOf(fdi), buffer', datagram.len, src_ip)
    /\ IF hung'
       THEN UNCHANGED <<capturing_, fdi, pc>>
       ELSE EndOfIteration(fdi, TRUE)
    /\ UNCHANGED <<revents, signals, steps, sockets_open, exit_code>>
    /\ UNCHANGED <<ret, cleared, covered, firstSeq, strict, solo, probe, journalVars,
                   roundtrip, zmq, sinkVars>>

\* fds[i] has POLLIN and recvmsg returns 0.
RecvEmpty ==
    /\ pc = "for"
    /\ POLLIN \in revents[fdi]
    /\ last' = [call |-> "recvmsg", result |-> "empty"]
    /\ EndOfIteration(fdi, TRUE)
    /\ UNCHANGED <<revents, signals, steps, sockets_open, exit_code>>
    /\ UNCHANGED <<managerVars, probe, pipelineVars, journalVars, roundtrip, zmq, sinkVars>>

\* fds[i] has POLLIN and recvmsg returns -1: a transient error continues with
\* the next descriptor, any other error is printed.
RecvFails(errno) ==
    /\ pc = "for"
    /\ POLLIN \in revents[fdi]
    /\ last' = [call |-> "recvmsg", result |-> errno]
    /\ EndOfIteration(fdi, ~IsTransient(errno))
    /\ UNCHANGED <<revents, signals, steps, sockets_open, exit_code>>
    /\ UNCHANGED <<managerVars, probe, pipelineVars, journalVars, roundtrip, zmq, sinkVars>>

\* fds[i] has no POLLIN: only the error events are checked.
NoInput ==
    /\ pc = "for"
    /\ POLLIN \notin revents[fdi]
    /\ EndOfIteration(fdi, TRUE)
    /\ UNCHANGED <<revents, last, signals, steps, sockets_open, exit_code>>
    /\ UNCHANGED <<managerVars, probe, pipelineVars, journalVars, roundtrip, zmq, sinkVars>>

\* main: g_packet_processor->flush_logs()
FinalFlush ==
    /\ pc = "returned"
    /\ flushes' = flushes + 1
    /\ pc' = "flushed"
    /\ steps' = Append(steps, "flush_logs")
    /\ UNCHANGED <<capturing_, revents, fdi, last, signals, sockets_open, exit_code>>
    /\ UNCHANGED <<managerVars, probe, stats_, packet_id, buffer, submitted, warnings,
                   reports, invalid, call, journalVars, roundtrip, zmq, sinkVars>>

\* main: g_packet_processor->print_performance_report()
FinalReport ==
    /\ pc = "flushed"
    /\ reports' = reports + 1
    /\ pc' = "reported"
    /\ steps' = Append(steps, "final_report")
    /\ UNCHANGED <<capturing_, revents, fdi, last, signals, sockets_open, exit_code>>
    /\ UNCHANGED <<managerVars, probe, stats_, packet_id, buffer, submitted, warnings,
                   flushes, invalid, call, journalVars, roundtrip, zmq, sinkVars>>

\* main: g_network_handler.reset(), that is ~NetworkHandler: stop_capture(),
\* then both sockets are closed.
ResetNetworkHandler ==
    /\ pc = "reported"
    /\ capturing_' = FALSE
    /\ sockets_open' = FALSE
    /\ pc' = "net_reset"
    /\ steps' = Append(steps, "sockets_closed")
    /\ UNCHANGED <<revents, fdi, last, signals, exit_code>>
    /\ UNCHANGED <<managerVars, probe, pipelineVars, journalVars, roundtrip, zmq, sinkVars>>

RECURSIVE Orders(_)
\* The sequences that hold every element of a set once.
Orders(S) ==
    IF S = {} THEN {<< >>}
    ELSE UNION {{<<x>> \o o : o \in Orders(S \ {x})} : x \in S}

JoinWriters_Abandon(f, n) == {f}

\* spdlog::shutdown joins the writer threads, which return after they have
\* handled every message queued before their terminate message: the records
\* 1 .. n not yet in the file f are written, in the order the writers get
\* to the sink.
JoinWriters(f, n) ==
    {f \o o : o \in Orders({r \in 1 .. n : \A k \in 1 .. Len(f) : f[k] # r})}

\* main: g_packet_processor.reset(), that is ~PacketProcessor and
\* ~BinaryLogger: flush(), spdlog::shutdown(); the sink is destroyed with the
\* logger, which closes the file.
ResetPacketProcessor ==
    /\ pc = "net_reset"
    /\ closing' = TRUE
    /\ nflush' = nflush + 1
    /\ nsub' = Len(submitted)
    /\ file' \in JoinWriters(file, Len(submitted))
    /\ alive' = {}
    /\ pc' = "proc_reset"
    /\ steps' = Append(steps, "journal_torn_down")
    /\ UNCHANGED <<queue, hand, todo, stalled>>
    /\ UNCHANGED <<capturing_, revents, fdi, last, signals, sockets_open, exit_code>>
    /\ UNCHANGED <<managerVars, probe, pipelineVars, roundtrip, zmq, sinkVars>>

\* main: "Shutdown complete.", return 0
Exit ==
    /\ pc = "proc_reset"
    /\ exit_code' = 0
    /\ pc' = "exit"
    /\ steps' = Append(steps, "exit")
    /\ UNCHANGED <<capturing_, revents, fdi, last, signals, sockets_open>>
    /\ UNCHANGED <<managerVars, probe, pipelineVars, journalVars, roundtrip, zmq, sinkVars>>

\* The steps of the main thread.
MainThread ==
    \/ StartCapture
    \/ LoopTest
    \/ \E errno \in PollErrnos : PollFails(errno)
    \/ PollTimeout
    \/ \E r \in PollResults : PollReady(r)
    \/ \E port \in Ports : \E datagram \in CaptureDatagramsOn(port), src_ip \in SrcIps :
           RecvDatagram(datagram, src_ip)
    \/ RecvEmpty
    \/ \E errno \in RecvErrnos : RecvFails(errno)
    \/ NoInput
    \/ FinalFlush
    \/ FinalReport
    \/ ResetNetworkHandler
    \/ ResetPacketProcessor
    \/ Exit

(***************************************************************************)
(* The ZeroMQ launcher (main_zmq.cpp) and ZmqNetworkHandler.  start_capture *)
(* starts capture_loop in a thread of its own and main then sleeps for     *)
(* ever; the process ends only through exit(0) in the signal handler.      *)
(* zmq.at is where the capture thread is, zmq.handler where the signal     *)
(* handler is: it blocks in stop_capture until the capture thread has left *)
(* its loop.                                                               *)
(***************************************************************************)

\* The errors zmq_recv(.., ZMQ_DONTWAIT) is made to fail with: no message
\* queued, and the context terminated.
ZmqErrnos == {"EAGAIN", "ETERM"}

\* main has constructed the PacketProcessor and the ZmqNetworkHandler
\* (running_(false), no context, no socket, no thread).
ZmqInit ==
    [running_ |-> FALSE, at |-> "none", size1 |-> 0, size2 |-> 0, errno |-> "none",
     connected |-> FALSE, handler |-> "none"]

\* capture_loop: the socket read at a position, and the position after it.
ZmqSocketAt(at) == IF at = "recv1" THEN 0 ELSE 1
ZmqAfter(at) == IF at = "recv1" THEN "recv2" ELSE "check"

\* capture_loop: int size = zmq_recv(...), stored in size1 or size2.
ZmqSize(z, size) == IF z.at = "recv1" THEN [z EXCEPT !.size1 = size] ELSE [z EXCEPT !.size2 = size]

\* signal_handler of main_zmq.cpp, up to capture_thread_.join() in
\* stop_capture: running_ = false.  The handler runs while main is in its
\* sleep loop or before start_capture.
ZmqSignalHandler ==
    /\ pc \in {"main", "sleep"}
    /\ zmq.handler = "none"
    /\ signals < MaxSignals
    /\ signals' = signals + 1
    /\ zmq' = [zmq EXCEPT !.running_ = FALSE, !.handler = "join"]
    /\ UNCHANGED <<capturing_, pc, revents, fdi, last, steps, sockets_open, exit_code>>
    /\ UNCHANGED <<managerVars, probe, pipelineVars, journalVars, roundtrip, sinkVars>>

\* signal_handler of main_zmq.cpp, from the return of join on: stop_capture
\* closes the sockets and destroys the context; then flush_logs(),
\* print_performance_report() and exit(0), which destroys the global
\* PacketProcessor (~BinaryLogger: flush, spdlog::shutdown).
ZmqHandlerFinish ==
    /\ zmq.handler = "join"
    /\ zmq.at \in {"none", "returned"}
    /\ zmq' = [zmq EXCEPT !.handler = "done", !.connected = FALSE,
                          !.at = IF @ = "returned" THEN "joined" ELSE @]
    /\ flushes' = flushes + 1
    /\ reports' = reports + 1
    /\ closing' = TRUE
    /\ nflush' = nflush + 1
    /\ nsub' = Len(submitted)
    /\ file' \in JoinWriters(file, Len(submitted))
    /\ alive' = {}
    /\ exit_code' = 0
    /\ pc' = "exit"
    /\ steps' = steps \o <<"flush_logs", "final_report", "journal_torn_down", "exit">>
    /\ UNCHANGED <<queue, hand, todo, stalled>>
    /\ UNCHANGED <<capturing_, revents, fdi, last, signals, sockets_open>>
    /\ UNCHANGED <<managerVars, probe, stats_, packet_id, buffer, submitted, warnings,
                   invalid, call, roundtrip, sinkVars>>

\* ZmqNetworkHandler::start_capture: running_ = true and the capture thread
\* is started; capture_loop up to its loop: context, two PULL sockets,
\* connect, int packet_id = 0.  main goes on to its sleep loop.
ZmqStartCapture ==
    /\ pc = "main"
    /\ zmq.handler = "none"
    /\ zmq' = [zmq EXCEPT !.running_ = TRUE, !.at = "while", !.connected = TRUE]
    /\ packet_id' = 0
    /\ pc' = "sleep"
    /\ UNCHANGED <<capturing_, revents, fdi, last, signals, steps, sockets_open, exit_code>>
    /\ UNCHANGED <<managerVars, probe, stats_, buffer, submitted, warnings, reports,
                   flushes, invalid, call, journalVars, roundtrip, sinkVars>>

\* capture_loop: while (running_)
ZmqLoopTest ==
    /\ zmq.at = "while"
    /\ zmq' = [zmq EXCEPT !.at = IF zmq.running_ THEN "recv1" ELSE "returned"]
    /\ UNCHANGED <<managerVars, probe, pipelineVars, journalVars, roundtrip, ingressVars,
                   sinkVars>>

\* capture_loop: zmq_recv returns the size of a message (> 0) and the
\* callback is called as callback_(packet_id++, port, buffer, size,
\* "zmq_push"): it gets the value packet_id had before the increment.
ZmqRecvMessage(datagram) ==
    /\ zmq.at \in {"recv1", "recv2"}
    /\ ~hung
    /\ stats_.total_packets < MaxPackets
    /\ datagram \in CaptureDatagramsOn(PortOf(ZmqSocketAt(zmq.at)))
    /\ datagram.len > 0
    /\ buffer' = datagram
    /\ call' = [packet_id |-> packet_id, port |-> PortOf(ZmqSocketAt(zmq.at)),
                buffer |-> buffer', len |-> datagram.len, src_ip |-> ZmqPush]
    /\ packet_id' = NextPacketId(packet_id)
    /\ process_packet(packet_id, PortOf(ZmqSocketAt(zmq.at)), buffer', datagram.len, ZmqPush)
    /\ zmq' = IF hung' THEN ZmqSize(zmq, datagram.len)
              ELSE [ZmqSize(zmq, datagram.len) EXCEPT !.at = ZmqAfter(zmq.at)]
    /\ UNCHANGED <<ret, cleared, covered, firstSeq, strict, solo, probe, journalVars,
                   roundtrip, ingressVars, sinkVars>>

\* capture_loop: zmq_recv returns 0, an empty message: no callback.
ZmqRecvEmpty ==
    /\ zmq.at \in {"recv1", "recv2"}
    /\ ~hung
    /\ zmq' = [ZmqSize(zmq, 0) EXCEPT !.at = ZmqAfter(zmq.at)]
    /\ UNCHANGED <<managerVars, probe, pipelineVars, journalVars, roundtrip, ingressVars,
                   sinkVars>>

\* capture_loop: zmq_recv returns -1 and sets errno.
ZmqRecvFails(errno) ==
    /\ zmq.at \in {"recv1", "recv2"}
    /\ ~hung
    /\ zmq' = [ZmqSize(zmq, -1) EXCEPT !.at = ZmqAfter(zmq.at), !.errno = errno]
    /\ UNCHANGED <<managerVars, probe, pipelineVars, journalVars, roundtrip, ingressVars,
                   sinkVars>>

\* capture_loop: the two error checks at the end of an iteration, both
\* reading zmq_errno() as the last failed call left it.
ZmqCheck ==
    /\ zmq.at = "check"
    /\ zmq' = [zmq EXCEPT !.at =
                  IF (zmq.size1 = -1 \/ zmq.size2 = -1) /\ zmq.errno # "EAGAIN"
                  THEN "returned" ELSE "while"]
    /\ UNCHANGED <<managerVars, probe, pipelineVars, journalVars, roundtrip, ingressVars,
                   sinkVars>>

\* The steps of the capture thread.
CaptureThread ==
    \/ ZmqLoopTest
    \/ \E port \in Ports : \E datagram \in CaptureDatagramsOn(port) : ZmqRecvMessage(datagram)
    \/ ZmqRecvEmpty
    \/ \E errno \in ZmqErrnos : ZmqRecvFails(errno)
    \/ ZmqCheck

(***************************************************************************)
(* The bytes of a log file and BinaryLogReader.  A byte is a number in     *)
(* 0 .. 255.  An entry is written as the 30 bytes of the packed            *)
(* BinaryLogRecord (the host is little-endian) followed by the payload     *)
(* bytes; the sink formats every message with the pattern "%v", and the    *)
(* pattern formatter ends every formatted message with the end-of-line     *)
(* string.                                                                 *)
(***************************************************************************)

RECURSIVE BytesLE(_, _)
\* The n bytes of an unsigned value, least significant first.
BytesLE(v, n) == IF n = 0 THEN << >> ELSE <<v % 256>> \o BytesLE(v \div 256, n - 1)

RECURSIVE FromLE(_)
\* The unsigned value of a little-endian byte string.
FromLE(b) == IF b = << >> THEN 0 ELSE b[1] + 256 * FromLE(Tail(b))

\* Byte k (from 1) of a datagram: the eight header bytes, then the body.
DatagramByte(d, k) ==
    IF k <= 2 THEN d.hdr_length[k]
    ELSE IF k = 3 THEN d.hdr_count
    ELSE IF k = 4 THEN d.hdr_unit
    ELSE IF k <= 8 THEN BytesLE(d.hdr_sequence, 4)[k - 4]
    ELSE (d.body + k) % 256

\* The bytes of the payload kept in an entry.
PayloadBytes(payload) == [k \in 1 .. payload.n |-> DatagramByte(payload, k)]

\* The bytes of a packed BinaryLogRecord with the given timestamp.
RecordBytes(timestamp_ns, record) ==
    BytesLE(timestamp_ns, 8) \o BytesLE(record.packet_id, 4) \o BytesLE(record.sequence, 4)
        \o BytesLE(record.src_ip, 4) \o BytesLE(record.port, 2) \o BytesLE(record.length, 2)
        \o <<record.count, record.unit, record.packet_type, record.order_status>>
        \o BytesLE(record.payload_length, 2)

\* log_entry of log_packet: the record, then the payload.
EntryBytes(timestamp_ns, entry) ==
    RecordBytes(timestamp_ns, entry.record) \o PayloadBytes(entry.payload)

\* spdlog's default end-of-line string, "\n".
DefaultEol == <<10>>

\* binary_logger_->set_pattern("%v"): the message, then the end of line.
pattern_v(msg) == msg \o DefaultEol

RECURSIVE FileBytes(_)
\* The log file after the entries (with their timestamps) were written in turn.
FileBytes(entries) ==
    IF entries = << >> THEN << >>
    ELSE pattern_v(EntryBytes(entries[1].timestamp_ns, entries[1].entry))
             \o FileBytes(Tail(entries))

\* BinaryLogReader::read_record at offset bytes_read of a file: whether it
\* returns true, the record and the payload it hands back, and the new offset.
\* The stream position advances with every byte read, also when the call fails.
read_record(bytes, bytes_read, pos) ==
    LET file_size == Len(bytes)
        got == Min(RecordSize, file_size - pos)
        rec == SubSeq(bytes, pos + 1, pos + got)
    IN  IF bytes_read >= file_size
        THEN [ok |-> FALSE, record |-> << >>, payload |-> << >>,
              bytes_read |-> bytes_read, pos |-> pos]
        ELSE IF got # RecordSize
        THEN [ok |-> FALSE, record |-> rec, payload |-> << >>,
              bytes_read |-> bytes_read, pos |-> pos + got]
        ELSE LET payload_length == FromLE(SubSeq(rec, 29, 30))
                 pgot == Min(payload_length, file_size - (pos + RecordSize))
                 pay == SubSeq(bytes, pos + RecordSize + 1, pos + RecordSize + pgot)
             IN  IF pgot # payload_length
                 THEN [ok |-> FALSE, record |-> rec, payload |-> pay,
                       bytes_read |-> bytes_read + RecordSize,
                       pos |-> pos + RecordSize + pgot]
                 ELSE [ok |-> TRUE, record |-> rec, payload |-> pay,
                       bytes_read |-> bytes_read + RecordSize + payload_length,
                       pos |-> pos + RecordSize + payload_length]

RECURSIVE ReadAll(_, _, _)
\* The reader's main loop: while (reader.read_record(record, payload)).
ReadAll(bytes, bytes_read, pos) ==
    LET r == read_record(bytes, bytes_read, pos)
    IN  IF r.ok
        THEN <<[record |-> r.record, payload |-> r.payload]>>
                 \o ReadAll(bytes, r.bytes_read, r.pos)
        ELSE << >>

\* The entries a log file is written from: packets shorter and longer than
\* the stored payload, on both ports.
RoundTripEntries ==
    { log_packet(1, PORT1, Datagram(8, 8, 1, 0, 1, 1), 8, 1, 1, 0, PacketType_DATA,
                 SEQUENCED_FIRST, ip_to_binary(<<10, 1, 2, 3>>)),
      log_packet(2, PORT2, Datagram(12, 12, 2, 0, 2, 7), 12, 2, 2, 0, PacketType_DATA,
                 SEQUENCED_IN_ORDER, ip_to_binary(<<10, 1, 2, 3>>)),
      log_packet(3, PORT1, Datagram(21, 21, 0, 0, 0, 3), 21, 0, 0, 0, PacketType_ADMIN,
                 UNSEQUENCED, ip_to_binary(<<10, 1, 2, 3>>)),
      log_packet(4, PORT1, Datagram(300, 300, 1, 0, 3, 5), 300, 3, 1, 0, PacketType_DATA,
                 SEQUENCED_OUT_OF_ORDER_EARLY, ip_to_binary(<<10, 1, 2, 3>>)) }

\* The timestamps taken by log_packet.
Timestamps == {1700, 2600}

Stamped == [entry : RoundTripEntries, timestamp_ns : Timestamps]

NoRoundTrip == [op |-> "none", entries |-> << >>, bytes |-> << >>, out |-> << >>]

\* No log file is being written or read.
IoInit ==
    /\ roundtrip = NoRoundTrip
    /\ zmq = ZmqInit
    /\ IngressInit
    /\ SinkInit

\* The entries of one log file, in the order they are written.
InitRoundTrip ==
    /\ ManagerInit
    /\ NoProbe
    /\ PipelineInit
    /\ JournalInit
    /\ IngressInit
    /\ SinkInit
    /\ zmq = ZmqInit
    /\ \E n \in 0 .. MaxFileRecords : \E es \in [1 .. n -> Stamped] :
           roundtrip = [NoRoundTrip EXCEPT !.entries = es]

\* The writers append the entries to the log file.
WriteLogFile ==
    /\ roundtrip.op = "none"
    /\ roundtrip' = [roundtrip EXCEPT !.op = "written", !.bytes = FileBytes(roundtrip.entries)]
    /\ UNCHANGED notReaderVars

\* binary_log_reader reads the file from the start to the first failed read.
ReadLogFile ==
    /\ roundtrip.op = "written"
    /\ roundtrip' = [roundtrip EXCEPT !.op = "read", !.out = ReadAll(roundtrip.bytes, 0, 0)]
    /\ UNCHANGED notReaderVars

NextRoundTrip ==
    \/ WriteLogFile
    \/ ReadLogFile

SpecRoundTrip == InitRoundTrip /\ [][NextRoundTrip]_vars

\* One datagram of len > 0 read by recvmsg in start_capture and handed to the
\* callback, which runs process_packet on the ingress thread.
Deliver(port, datagram, src_ip) ==
    /\ ~hung
    /\ stats_.total_packets < MaxPackets
    /\ datagram.len > 0
    /\ packet_id' = NextPacketId(packet_id)
    /\ buffer' = datagram
    /\ call' = [packet_id |-> packet_id', port |-> port, buffer |-> buffer',
                len |-> datagram.len, src_ip |-> src_ip]
    /\ process_packet(packet_id', port, buffer', datagram.len, src_ip)
    /\ UNCHANGED <<ret, cleared, covered, firstSeq, strict, solo, probe, journalVars, ioVars>>

InitPipeline ==
    /\ ManagerInit
    /\ NoProbe
    /\ PipelineInit
    /\ JournalInit
    /\ IoInit

NextPipeline ==
    \E port \in Ports : \E datagram \in DatagramsOn(port), src_ip \in SrcIps :
        Deliver(port, datagram, src_ip)

SpecPipeline == InitPipeline /\ [][NextPipeline]_vars

InitIngress ==
    /\ ManagerInit
    /\ NoProbe
    /\ PipelineInit
    /\ JournalInit
    /\ IoInit

NextIngress ==
    \/ SignalHandler
    \/ MainThread

SpecIngress == InitIngress /\ [][NextIngress]_vars

InitZmq ==
    /\ ManagerInit
    /\ NoProbe
    /\ PipelineInit
    /\ JournalInit
    /\ IoInit

NextZmq ==
    \/ ZmqSignalHandler
    \/ ZmqHandlerFinish
    \/ ZmqStartCapture
    \/ CaptureThread

SpecZmq == InitZmq /\ [][NextZmq]_vars

\* The main thread is scheduled.
FairSpecIngress ==
    /\ SpecIngress
    /\ WF_vars(MainThread)

InitRotation ==
    /\ ManagerInit
    /\ NoProbe
    /\ PipelineInit
    /\ JournalInit
    /\ IoInit

NextRotation ==
    \/ \E size \in EntrySizes : sink_it_(size)
    \/ rotate_
    \/ reopen

SpecRotation == InitRotation /\ [][NextRotation]_vars

InitJournal ==
    /\ ManagerInit
    /\ NoProbe
    /\ PipelineInit
    /\ JournalInit
    /\ IoInit

NextJournal ==
    \/ BeginInfo
    \/ BeginFlush
    \/ BeginShutdown
    \/ Post
    \/ \E w \in Workers : Dequeue(w)
    \/ \E w \in Workers : Handle(w)

SpecJournal == InitJournal /\ [][NextJournal]_vars

\* The writer threads and the thread waiting for a queue slot are scheduled.
FairSpecJournal ==
    /\ SpecJournal
    /\ WF_vars(Post)
    /\ \A w \in Workers : WF_vars(Dequeue(w)) /\ WF_vars(Handle(w))

\* The journal with writes that can fail.
NextFaultyJournal ==
    \/ NextJournal
    \/ \E w \in Workers : HandleFails(w)

SpecFaultyJournal == InitJournal /\ [][NextFaultyJournal]_vars

\* The writer threads and the thread waiting for a queue slot are scheduled.
\* ~BinaryLogger runs when main resets the PacketProcessor, after
\* start_capture has returned: nothing in the journal makes it happen.
FairSpecFaultyJournal ==
    /\ SpecFaultyJournal
    /\ WF_vars(Post)
    /\ \A w \in Workers : WF_vars(Dequeue(w)) /\ WF_vars(Handle(w) \/ HandleFails(w))

InitClassifier ==
    /\ ManagerInit
    /\ PipelineInit
    /\ JournalInit
    /\ IoInit
    /\ \E len \in ProbeLens, h \in ProbeHdrLengths, seq \in ProbeSeqs, count \in ProbeCounts :
           probe = [op |-> "none", buffer |-> [hdr_length |-> WireBytes16(h)],
                    len |-> len, seq |-> seq, count |-> count,
                    valid |-> FALSE, packet_type |-> 0]

CallValidatePacket ==
    /\ probe.op = "none"
    /\ UNCHANGED <<pipelineVars, journalVars, ioVars>>
    /\ probe' = [probe EXCEPT !.op = "validate_packet",
                              !.valid = validate_packet(probe.buffer, probe.len)]
    /\ UNCHANGED managerVars

CallClassifyPacketType ==
    /\ probe.op = "none"
    /\ UNCHANGED <<pipelineVars, journalVars, ioVars>>
    /\ probe' = [probe EXCEPT !.op = "classify_packet_type",
                              !.packet_type = classify_packet_type(probe.seq, probe.count, probe.len)]
    /\ UNCHANGED managerVars

NextClassifier ==
    \/ CallValidatePacket
    \/ CallClassifyPacketType

SpecClassifier == InitClassifier /\ [][NextClassifier]_vars

Init ==
    /\ ManagerInit
    /\ NoProbe
    /\ PipelineInit
    /\ JournalInit
    /\ IoInit

\* determine_order_status looking the tracker up before the seq == 0 test
determine_order_status_LookupFirst(seq, count, port, unit) ==
    /\ ~hung
    /\ UNCHANGED notManagerVars
    /\ LET key == <<port, unit>>
           d == Determine(TrackerAt(key), seq, count)
       IN  IF seq = 0
           THEN /\ trackers_' = WithTracker(key, TrackerAt(key))
                /\ ret' = Call(seq, count, port, unit, UNSEQUENCED)
                /\ UNCHANGED <<hung, cleared, covered, firstSeq, strict, solo>>
           ELSE /\ trackers_' = WithTracker(key, d.tracker)
                /\ ret' = Call(seq, count, port, unit, d.status)
                /\ hung' = ~d.returns
                /\ covered' = [covered EXCEPT ![key] = @ \cup Covers(seq, count)]
                /\ firstSeq' = [firstSeq EXCEPT ![key] = IF @ = 0 THEN seq ELSE @]
                /\ strict' = [strict EXCEPT ![key] =
                                 IF @ >= 0 /\ seq = @ + 1 /\ count = 1 THEN seq ELSE -1]
                /\ solo' = [solo EXCEPT ![key] = Determine(@, seq, count).tracker]
                /\ UNCHANGED cleared

\* SequenceManager::determine_order_status
determine_order_status(seq, count, port, unit) ==
    /\ ~hung
    /\ UNCHANGED notManagerVars
    /\ IF seq = 0
       THEN /\ ret' = Call(seq, count, port, unit, UNSEQUENCED)
            /\ UNCHANGED <<trackers_, hung, cleared, covered, firstSeq, strict, solo>>
       ELSE LET key == <<port, unit>>
                d == Determine(TrackerAt(key), seq, count)
            IN  /\ trackers_' = WithTracker(key, d.tracker)
                /\ ret' = Call(seq, count, port, unit, d.status)
                /\ hung' = ~d.returns
                /\ covered' = [covered EXCEPT ![key] = @ \cup Covers(seq, count)]
                /\ firstSeq' = [firstSeq EXCEPT ![key] = IF @ = 0 THEN seq ELSE @]
                /\ strict' = [strict EXCEPT ![key] =
                                 IF @ >= 0 /\ seq = @ + 1 /\ count = 1 THEN seq ELSE -1]
                /\ solo' = [solo EXCEPT ![key] = Determine(@, seq, count).tracker]
                /\ UNCHANGED cleared

\* clear that leaves the map as it is
clear_KeepsTrackers ==
    /\ ~hung
    /\ UNCHANGED notManagerVars
    /\ ret' = [op |-> "clear", seq |-> 0, count |-> 0, port |-> 0, unit |-> 0, status |-> NoStatus]
    /\ cleared' = (cleared \/ DOMAIN trackers_ = Channels)
    /\ UNCHANGED <<trackers_, hung, covered, firstSeq, strict, solo>>

\* SequenceManager::clear
clear ==
    /\ ~hung
    /\ UNCHANGED notManagerVars
    /\ trackers_' = << >>
    /\ ret' = [op |-> "clear", seq |-> 0, count |-> 0, port |-> 0, unit |-> 0, status |-> NoStatus]
    /\ cleared' = (cleared \/ DOMAIN trackers_ = Channels)
    /\ covered' = [c \in Channels |-> {}]
    /\ firstSeq' = [c \in Channels |-> 0]
    /\ strict' = [c \in Channels |-> 0]
    /\ solo' = [c \in Channels |-> SequenceTracker]
    /\ UNCHANGED hung

\* SequenceManager::get_tracker_count
get_tracker_count == Cardinality(DOMAIN trackers_)

Next ==
    \/ \E port \in Ports, unit \in Units : \E seq \in SeqsOn(port), count \in CountsOn(port) :
           determine_order_status(seq, count, port, unit)
    \/ clear

Spec == Init /\ [][Next]_vars

TypeOK ==
    /\ DOMAIN trackers_ \subseteq Channels
    /\ \A k \in DOMAIN trackers_ :
          /\ trackers_[k].last_confirmed_seq \in Seqs
          /\ trackers_[k].highest_seen_seq \in Seqs
          /\ trackers_[k].pending_sequences \subseteq Seqs
    /\ hung \in BOOLEAN

\* ------------------------------------------------------------------ claims
\* The step just taken was a call of determine_order_status that returned.
Returned == ret'.op = "determine_order_status" /\ ~hung'

\* The step just taken was a call of determine_order_status with seq > 0.
SequencedCall == ret'.op = "determine_order_status" /\ ret'.seq > 0

\* The channel of the call just made.
RetKey == <<ret'.port, ret'.unit>>

\* The last sequence the packet (seq, count) is taken to cover, in unbounded
\* integers: seq + max(count, 1) - 1, or seq when that exceeds the largest
\* uint32_t.
CoverEnd(seq, count) ==
    IF seq + Max(count, 1) - 1 > MaxU32 THEN seq ELSE seq + Max(count, 1) - 1

\* C1: on every channel, between calls, last_confirmed_seq <= highest_seen_seq.
C1_ConfirmedLeHighest ==
    ~hung => \A k \in DOMAIN trackers_ :
                 trackers_[k].last_confirmed_seq <= trackers_[k].highest_seen_seq

\* C2: on every channel, between calls, every element of pending_sequences is
\* strictly greater than last_confirmed_seq + 1.
C2_PendingAboveExpected ==
    ~hung => \A k \in DOMAIN trackers_ :
                 \A p \in trackers_[k].pending_sequences :
                     p > trackers_[k].last_confirmed_seq + 1

\* C3: on a channel that has seen its first packet, a sequenced packet with
\* last_confirmed + 1 < s <= highest_seen is classified LATE and leaves the
\* channel state unchanged.
C3_LateInsideSeenRange ==
    [][(/\ SequencedCall
        /\ RetKey \in DOMAIN trackers_
        /\ trackers_[RetKey].last_confirmed_seq + 1 < ret'.seq
        /\ ret'.seq <= trackers_[RetKey].highest_seen_seq)
       => (/\ ret'.status = SEQUENCED_OUT_OF_ORDER_LATE
           /\ trackers_' = trackers_)]_vars

\* C4: a sequenced packet with 1 <= s <= last_confirmed_seq yields DUPLICATE
\* and leaves every channel unchanged.
C4_ReplayIsDuplicate ==
    [][(/\ SequencedCall
        /\ RetKey \in DOMAIN trackers_
        /\ ret'.seq <= trackers_[RetKey].last_confirmed_seq)
       => (/\ ret'.status = SEQUENCED_DUPLICATE
           /\ trackers_' = trackers_)]_vars

\* C5: on a fresh channel fed 1, 2, 3, ... with count 1, the first packet
\* yields FIRST, every later one IN_ORDER, pending_sequences is empty after
\* every step (and last_confirmed_seq is the sequence just fed).
C5_InOrderFeed ==
    [][\A k \in Channels :
          (strict'[k] >= 1 /\ strict'[k] # strict[k])
          => (/\ ret'.status = (IF strict'[k] = 1 THEN SEQUENCED_FIRST
                                                 ELSE SEQUENCED_IN_ORDER)
              /\ k \in DOMAIN trackers_'
              /\ trackers_'[k].pending_sequences = {}
              /\ trackers_'[k].last_confirmed_seq = strict'[k])]_vars

\* A channel was fed 1 .. MaxU32 in order, the last packet being IN_ORDER.
C5_Witness ==
    \E k \in DOMAIN trackers_ :
        /\ strict[k] = MaxU32
        /\ ret.status = SEQUENCED_IN_ORDER
        /\ <<ret.port, ret.unit>> = k
        /\ trackers_[k].pending_sequences = {}

C7_ConfirmedIsCovered ==
    \A k \in DOMAIN trackers_ :
        /\ firstSeq[k] >= 1
        /\ \A x \in firstSeq[k] .. trackers_[k].last_confirmed_seq : x \in covered[k]

\* last_confirmed_seq has moved past the packet just received by absorbing
\* pending sequences, on a channel whose first packet came earlier.
C7_Witness ==
    \E k \in DOMAIN trackers_ :
        /\ ret.status = SEQUENCED_IN_ORDER
        /\ <<ret.port, ret.unit>> = k
        /\ firstSeq[k] < ret.seq
        /\ trackers_[k].last_confirmed_seq > CoverEnd(ret.seq, ret.count)

\* C8: a packet with sequence 0 yields UNSEQUENCED and changes no channel and
\* creates none; 0 is never a member of a pending set.
C8_UnsequencedIsNoOp ==
    [][/\ (ret'.op = "determine_order_status" /\ ret'.seq = 0)
          => (/\ ret'.status = UNSEQUENCED
              /\ trackers_' = trackers_
              /\ Cardinality(DOMAIN trackers_') = Cardinality(DOMAIN trackers_)
              /\ hung' = hung)
       /\ \A k \in DOMAIN trackers_' : 0 \notin trackers_'[k].pending_sequences]_vars

\* A sequence-0 packet was received on a channel that has no tracker, while
\* another channel holds pending sequences.
C8_Witness ==
    /\ ret.op = "determine_order_status"
    /\ ret.seq = 0
    /\ ret.status = UNSEQUENCED
    /\ <<ret.port, ret.unit>> \notin DOMAIN trackers_
    /\ \E k \in DOMAIN trackers_ : trackers_[k].pending_sequences # {}

\* C9: when s + n - 1 would exceed the largest uint32_t the packet is treated
\* as the packet (s, 1); the range end is computed without wrap-around; and
\* no value the packet writes to last_confirmed_seq, highest_seen_seq or
\* pending is smaller than s.
C9_OverflowGuard ==
    [][SequencedCall
       => LET s == ret'.seq
              n == Max(ret'.count, 1)
              old == TrackerAt(RetKey)
              new == trackers_'[RetKey]
          IN  /\ (s + n - 1 > MaxU32)
                  => /\ MessageCount(s, ret'.count) = 1
                     /\ new = Determine(old, s, 1).tracker
              /\ RangeEnd(s, MessageCount(s, ret'.count)) = s + MessageCount(s, ret'.count) - 1
              /\ new.last_confirmed_seq # old.last_confirmed_seq => new.last_confirmed_seq >= s
              /\ new.highest_seen_seq # old.highest_seen_seq => new.highest_seen_seq >= s
              /\ \A p \in new.pending_sequences \ old.pending_sequences : p >= s]_vars

\* A packet whose range would pass the largest uint32_t was received as the
\* first packet of a channel.
C9_Witness ==
    /\ ret.op = "determine_order_status"
    /\ ret.seq = MaxU32
    /\ ret.count = 2
    /\ ret.status = SEQUENCED_FIRST
    /\ trackers_[<<ret.port, ret.unit>>].last_confirmed_seq = MaxU32

\* C10: the first sequenced packet of a channel creates its state and yields
\* FIRST, no later packet on the channel yields FIRST, channel state is
\* removed only by clear(), and clear() removes every channel.
C10_FirstOncePerChannel ==
    [][/\ (SequencedCall /\ RetKey \notin DOMAIN trackers_)
          => (ret'.status = SEQUENCED_FIRST /\ RetKey \in DOMAIN trackers_')
       /\ (SequencedCall /\ RetKey \in DOMAIN trackers_)
          => ret'.status # SEQUENCED_FIRST
       /\ ~(DOMAIN trackers_ \subseteq DOMAIN trackers_') => ret'.op = "clear"
       /\ ret'.op = "clear" => DOMAIN trackers_' = {}]_vars

\* A channel whose state a clear() removed has received a packet again, and
\* that packet yielded FIRST.
C10_Witness ==
    /\ ret.op = "determine_order_status"
    /\ ret.status = SEQUENCED_FIRST
    /\ cleared
    /\ get_tracker_count = 2

C12_ValidateIff ==
    probe.op = "validate_packet" =>
        LET hdr_length == probe.buffer.hdr_length[1] + 256 * probe.buffer.hdr_length[2]
        IN  probe.valid <=> /\ probe.len >= 8
                            /\ 1 <= hdr_length
                            /\ hdr_length <= 2048
                            /\ hdr_length <= probe.len + 100

\* An accepted packet that declares more than was received (within tolerance).
C12_Witness ==
    /\ probe.op = "validate_packet"
    /\ probe.valid
    /\ le16toh_safe(probe.buffer.hdr_length) = probe.len + 100

\* C13: classify_packet_type returns, for every (sequence, count, length),
\* HEARTBEAT when sequence = 0, count = 0 and length <= 20; ADMIN when
\* sequence = 0, count = 0 and length > 20; UNSEQUENCED when sequence = 0 and
\* count > 0; DATA when sequence > 0.
C13_ClassifyFirstMatch ==
    probe.op = "classify_packet_type" =>
        /\ probe.packet_type \in {PacketType_HEARTBEAT, PacketType_ADMIN,
                                   PacketType_UNSEQUENCED, PacketType_DATA}
        /\ (probe.seq = 0 /\ probe.count = 0 /\ probe.len <= 20)
               => probe.packet_type = PacketType_HEARTBEAT
        /\ (probe.seq = 0 /\ probe.count = 0 /\ probe.len > 20)
               => probe.packet_type = PacketType_ADMIN
        /\ (probe.seq = 0 /\ probe.count > 0)
               => probe.packet_type = PacketType_UNSEQUENCED
        /\ probe.seq > 0 => probe.packet_type = PacketType_DATA

\* A heartbeat of exactly 20 bytes.
C13_Witness ==
    /\ probe.op = "classify_packet_type"
    /\ probe.seq = 0 /\ probe.count = 0 /\ probe.len = 20
    /\ probe.packet_type = PacketType_HEARTBEAT

\* The declared length of the packet of a call, and the two cases of the
\* pipeline the claims speak of.
DeclaredLength(c) == c.buffer.hdr_length[1] + 256 * c.buffer.hdr_length[2]

FailsValidation(c) ==
    ~ (/\ c.len >= 8
       /\ 1 <= DeclaredLength(c)
       /\ DeclaredLength(c) <= 2048
       /\ DeclaredLength(c) <= c.len + 100)

IsHeartbeat(c) ==
    /\ ~FailsValidation(c)
    /\ c.buffer.hdr_sequence = 0
    /\ c.buffer.hdr_count = 0
    /\ c.len <= 20

\* C14: a packet that fails validation adds one to total_packets and one
\* console warning, and changes no other counter, no tracker and not the
\* entries submitted to the journal.
C14_InvalidDropped ==
    [][FailsValidation(call')
          => /\ stats_' = [stats_ EXCEPT !.total_packets = @ + 1]
             /\ warnings' = warnings + 1
             /\ trackers_' = trackers_
             /\ submitted' = submitted]_vars

\* A rejected packet arrives after packets that were tracked and journalled.
C14_Witness ==
    /\ FailsValidation(call)
    /\ warnings = 1
    /\ Len(submitted) = 2
    /\ DOMAIN trackers_ # {}

\* C15: (heartbeat skipping is enabled) a HEARTBEAT packet adds one to
\* total_packets and one to heartbeats_skipped and nothing else: no tracker
\* changes and no entry is submitted to the journal.
C15_HeartbeatSkipped ==
    [][IsHeartbeat(call')
          => /\ stats_' = [stats_ EXCEPT !.total_packets = @ + 1,
                                         !.heartbeats_skipped = @ + 1]
             /\ trackers_' = trackers_
             /\ submitted' = submitted
             /\ warnings' = warnings]_vars

\* A second heartbeat, after a packet that was journalled.
C15_Witness ==
    /\ IsHeartbeat(call)
    /\ stats_.heartbeats_skipped = 2
    /\ Len(submitted) = 1

\* C16: after every call of process_packet the per-type counters add up to
\* the packets that were neither rejected nor skipped as heartbeats.
C16_CounterIdentity ==
    stats_.data_packets + stats_.admin_packets + stats_.unsequenced_packets
        = stats_.total_packets - invalid - stats_.heartbeats_skipped

\* One rejected packet, one heartbeat and one admin packet.
C16_Witness ==
    /\ stats_.total_packets = 3
    /\ invalid = 1
    /\ stats_.heartbeats_skipped = 1
    /\ stats_.admin_packets = 1

\* C17: delivered datagrams are numbered 1, 2, 3, .. across both ports; the
\* entries submitted to the journal carry strictly increasing packet_ids in
\* submission order; entries are only appended, and an appended entry is the
\* one of the datagram being processed (its packet_id, port and unit), so the
\* entries of one (port, unit) are submitted in the order of reception.
C17_PacketIdsIncrease ==
    [][/\ call'.packet_id = call.packet_id + 1
       /\ \A i, j \in 1 .. Len(submitted') :
              i < j => submitted'[i].record.packet_id < submitted'[j].record.packet_id
       /\ Len(submitted') >= Len(submitted)
       /\ SubSeq(submitted', 1, Len(submitted)) = submitted
       /\ Len(submitted') <= Len(submitted) + 1
       /\ Len(submitted') = Len(submitted) + 1
             => LET e == submitted'[Len(submitted')]
                IN  /\ e.record.packet_id = call'.packet_id
                    /\ e.record.port = call'.port
                    /\ e.record.unit = call'.buffer.hdr_unit]_vars

\* Two entries from different ports with a packet in between that left none.
C17_Witness ==
    /\ Len(submitted) = 2
    /\ submitted[1].record.packet_id = 1
    /\ submitted[2].record.packet_id = 3
    /\ submitted[1].record.port # submitted[2].record.port

\* The entry the claim of C18 describes for the packet of a call.
EntryFor(c) ==
    LET payload_length == IF c.len <= 256 THEN c.len ELSE 256
    IN  [record |-> [packet_id |-> c.packet_id,
                     sequence |-> c.buffer.hdr_sequence,
                     src_ip |-> c.src_ip[1] + 256 * c.src_ip[2] + 65536 * c.src_ip[3]
                                   + 16777216 * c.src_ip[4],
                     port |-> c.port,
                     length |-> c.len,
                     count |-> c.buffer.hdr_count,
                     unit |-> c.buffer.hdr_unit,
                     packet_type |-> IF c.buffer.hdr_sequence > 0 THEN PacketType_DATA
                                     ELSE IF c.buffer.hdr_count > 0 THEN PacketType_UNSEQUENCED
                                     ELSE PacketType_ADMIN,
                     payload_length |-> payload_length],
         payload |-> [n |-> payload_length, hdr_length |-> c.buffer.hdr_length,
                      hdr_count |-> c.buffer.hdr_count, hdr_unit |-> c.buffer.hdr_unit,
                      hdr_sequence |-> c.buffer.hdr_sequence, body |-> c.buffer.body]]

\* An entry without the tracker verdict.
WithoutVerdict(e) ==
    [record |-> [f \in DOMAIN e.record \ {"order_status"} |-> e.record[f]],
     payload |-> e.payload]

\* The last packet was accepted and not skipped, and exactly one entry was
\* submitted for it, which is the record of that packet followed by its
\* first min(L, 256) bytes.
EntrySubmitted ==
    /\ Cardinality({i \in 1 .. Len(submitted) :
                       submitted[i].record.packet_id = call.packet_id}) = 1
    /\ WithoutVerdict(submitted[Len(submitted)]) = EntryFor(call)
    /\ submitted[Len(submitted)].record.order_status
          \in {UNSEQUENCED, SEQUENCED_FIRST, SEQUENCED_IN_ORDER,
               SEQUENCED_OUT_OF_ORDER_LATE, SEQUENCED_OUT_OF_ORDER_EARLY,
               SEQUENCED_DUPLICATE}
    /\ \A i \in 1 .. Len(submitted) :
          /\ submitted[i].record.payload_length <= 256
          /\ submitted[i].payload.n = submitted[i].record.payload_length

\* C18: every accepted packet that is not a skipped heartbeat has exactly one
\* entry submitted to the journal: the 30-byte record (packet_id, sequence,
\* src_ip, port, length L, count, unit, packet_type, verdict, payload_length)
\* followed by the first payload_length = min(L, 256) bytes of the packet.
C18_OneEntryPerAcceptedPacket ==
    (call.packet_id > 0 /\ ~FailsValidation(call) /\ ~IsHeartbeat(call))
        => EntrySubmitted

\* The same, for the calls of determine_order_status that return.
C18_EntryWhenTrackerReturns ==
    (call.packet_id > 0 /\ ~FailsValidation(call) /\ ~IsHeartbeat(call) /\ ~hung)
        => EntrySubmitted

\* Number of record messages in a sequence of messages.
LogCount(q) == Cardinality({i \in 1 .. Len(q) : q[i].type = "log"})

\* Number of times record r was written to the log files.
Written(r) == Cardinality({i \in 1 .. Len(file) : file[i] = r})

\* The records handed to writers: held by a writer, or written.
HandedCount == Cardinality({w \in Workers : hand[w].type = "log"}) + Len(file)

\* C19: the queue never holds more than ASYNC_QUEUE_SIZE messages; while it
\* is full a submission waits (nothing is appended, and the only change of the
\* queue is a writer taking its head); and the records submitted are exactly
\* those queued plus those handed to writers, each once.
C19_BackpressureNoLoss ==
    [][/\ Len(queue') <= ASYNC_QUEUE_SIZE
       /\ nsub' = LogCount(queue') + HandedCount'
       /\ RecordsIn(queue') \cup {hand'[w].id : w \in {v \in Workers : hand'[v].type = "log"}}
              \cup {file'[i] : i \in 1 .. Len(file')} = 1 .. nsub'
       /\ (Len(queue) = ASYNC_QUEUE_SIZE /\ todo # << >>)
             => /\ todo' = todo
                /\ nsub' = nsub
                /\ queue' \in {queue, Tail(queue)}]_vars

\* A submission is waiting on a full queue while a writer holds a record.
C19_Witness ==
    /\ Len(queue) = ASYNC_QUEUE_SIZE
    /\ todo # << >>
    /\ Head(todo).type = "log"
    /\ \E w \in Workers : hand[w].type = "log"

\* C20: with the writer threads scheduled, a submission waiting for a queue
\* slot eventually returns, and every submitted record is eventually written
\* to the log files, and never more than once, also when the shutdown begins
\* while records are queued.
C20_JournalLiveness ==
    /\ (todo # << >> /\ Head(todo).type = "log") ~> (todo = << >>)
    /\ \A r \in 1 .. MaxRecords : (nsub >= r) ~> (Written(r) = 1)
    /\ [](\A r \in 1 .. MaxRecords : Written(r) <= 1)

\* The shutdown has begun with a record still queued, after a submission
\* had to wait.
C20_Witness ==
    /\ stalled
    /\ closing
    /\ RecordsIn(queue) # {}

\* C21: the records appear in the log files in the order in which they were
\* submitted (increasing submission number, hence increasing packet_id).
C21_FileInSubmitOrder ==
    \A i, j \in 1 .. Len(file) : i < j => file[i] < file[j]

\* C22: when BinaryLogger::flush returns, every record submitted before the
\* call has been written to the log files: none is still queued and none is
\* held unwritten by a writer.
C22_FlushDrains ==
    [][(~closing /\ todo = <<FlushMsg>> /\ todo' = << >>)
          => /\ RecordsIn(queue') = {}
             /\ \A w \in Workers : hand'[w].type # "log"
             /\ \A r \in 1 .. nsub' :
                    Cardinality({i \in 1 .. Len(file') : file'[i] = r}) = 1]_vars

\* C23: every packet that brings total_packets to a multiple of
\* FLUSH_INTERVAL requests a journal flush while it is processed, and every
\* packet that brings it to a multiple of STATS_INTERVAL emits a report,
\* whatever the validity or type of the packet.
C23_MaintenanceEveryInterval ==
    [][call'.packet_id # call.packet_id
          => /\ stats_'.total_packets % FLUSH_INTERVAL = 0 => flushes' = flushes + 1
             /\ stats_'.total_packets % STATS_INTERVAL = 0 => reports' = reports + 1]_vars

\* C24: reading a log file back with read_record gives, in order, the
\* 30-byte records and the stored payload bytes of the entries that were
\* written, and the file holds nothing but those bytes.
C24_RoundTrip ==
    roundtrip.op = "read" =>
        /\ Len(roundtrip.out) = Len(roundtrip.entries)
        /\ \A i \in 1 .. Len(roundtrip.entries) :
              LET e == roundtrip.entries[i]
                  o == roundtrip.out[i]
              IN  /\ o.record = RecordBytes(e.timestamp_ns, e.entry.record)
                  /\ o.payload = PayloadBytes(e.entry.payload)
                  /\ Len(o.payload) = (IF e.entry.record.length <= 256
                                       THEN e.entry.record.length ELSE 256)

\* start_capture is running its loop or has not been called yet.
InCapture == pc \in {"main", "while", "poll", "for"}

\* C25: once stop_capture has been called from the signal handler, at any
\* point after the NetworkHandler is constructed (also before start_capture
\* has begun), start_capture eventually returns, provided the callback
\* returns.
C25_StopHonoured ==
    (signals > 0) ~> (~InCapture \/ hung)

\* What holds instead: a stop that finds the loop running (the flag is
\* false while start_capture is in its loop) makes it return.
C25_StopInsideLoopHonoured ==
    (pc \in {"while", "poll", "for"} /\ ~capturing_) ~> (~InCapture \/ hung)

\* The last poll reported an error event on one of the two sockets.
ErrorReported == \E i \in Fds : revents[i] \cap ErrorEvents # {}

\* C26: when poll has reported POLLERR, POLLHUP or POLLNVAL on a socket, the
\* capture loop ends without calling poll again.
C26_ErrorEndsLoop ==
    [][(ErrorReported /\ pc = "while") => pc' # "poll"]_vars

\* The step is a return of poll or the end of one iteration of the for loop.
IngressCall == pc \in {"poll", "for"} /\ <<pc, fdi>>' # <<pc, fdi>>

\* The call that returned in this step failed with a transient error or
\* timed out.
TransientResult ==
    \/ last' = [call |-> "poll", result |-> "EINTR"]
    \/ last' = [call |-> "poll", result |-> "timeout"]
    \/ /\ last'.call = "recvmsg"
       /\ last'.result \in {"EINTR", "EAGAIN", "EWOULDBLOCK"}
       /\ POLLIN \in revents[fdi]

\* C27: a poll interrupted by a signal, a poll timeout and a read failing
\* with EINTR, EAGAIN or EWOULDBLOCK do not end the loop (the flag is left
\* as it is and the loop goes on with the next descriptor or the next poll),
\* use no packet_id and deliver nothing to the callback.
C27_TransientErrorsAreNoOps ==
    [][(IngressCall /\ TransientResult)
          => /\ capturing_' = capturing_
             /\ pc' \in {"while", "for"}
             /\ packet_id' = packet_id
             /\ call' = call
             /\ stats_' = stats_
             /\ submitted' = submitted]_vars

\* A read has failed with EWOULDBLOCK on a socket that also had an error
\* event, after a packet was delivered; the loop is in poll again.
C27_Witness ==
    /\ last = [call |-> "recvmsg", result |-> "EWOULDBLOCK"]
    /\ ErrorReported
    /\ pc = "poll"
    /\ capturing_
    /\ packet_id = 1
    /\ signals = 0

\* s is an initial part of t.
IsPrefix(s, t) == Len(s) <= Len(t) /\ \A k \in 1 .. Len(s) : s[k] = t[k]

C29_WriteFailureEscalates ==
    (write_errors > 0) ~> closing

RECURSIVE Concat(_, _)
\* The bytes of the files in the slots k, k - 1, .., 0, in this order.
Concat(fs, k) ==
    IF k < 0 THEN << >>
    ELSE (IF k \in DOMAIN fs THEN fs[k] ELSE << >>) \o Concat(fs, k - 1)

\* The highest slot that holds a file.
TopSlot == CHOOSE k \in DOMAIN logs : \A j \in DOMAIN logs : j <= k

\* s is a final part of t.
IsSuffix(s, t) ==
    /\ Len(s) <= Len(t)
    /\ \A k \in 1 .. Len(s) : s[k] = t[Len(t) - Len(s) + k]

\* The number of bytes of entry id in the byte sequence f.
BytesOf(id, f) == Cardinality({k \in 1 .. Len(f) : f[k] = id})

CoveredUpTo(k) ==
    /\ ret.op = "determine_order_status"
    /\ ret.seq > 0
    /\ <<ret.port, ret.unit>> = k
    /\ ret.status \in {SEQUENCED_FIRST, SEQUENCED_IN_ORDER}
    /\ ret.seq + Max(ret.count, 1) - 1 <= MaxU32
    /\ k \in DOMAIN trackers_
    /\ trackers_[k].last_confirmed_seq = ret.seq + Max(ret.count, 1) - 1

\* C33: after a packet (s, count), n = max(count, 1), classified FIRST or
\* IN_ORDER with nothing absorbed from pending, a following packet on the
\* channel that starts at s + n is IN_ORDER and one that starts anywhere in
\* s .. s + n - 1 is DUPLICATE.
C33_MultiMessageCoverage ==
    [][(SequencedCall /\ CoveredUpTo(RetKey))
       => LET s == ret.seq
              n == Max(ret.count, 1)
          IN  /\ ret'.seq = s + n => ret'.status = SEQUENCED_IN_ORDER
              /\ ret'.seq \in s .. s + n - 1 => ret'.status = SEQUENCED_DUPLICATE]_vars

\* The same for the calls that return, on a channel whose last_confirmed_seq
\* is below the largest uint32_t.
C33_BelowMaxCoverage ==
    [][(SequencedCall /\ Returned /\ CoveredUpTo(RetKey)
        /\ trackers_[RetKey].last_confirmed_seq < MaxU32)
       => LET s == ret.seq
              n == Max(ret.count, 1)
          IN  /\ ret'.seq = s + n => ret'.status = SEQUENCED_IN_ORDER
              /\ ret'.seq \in s .. s + n - 1 => ret'.status = SEQUENCED_DUPLICATE]_vars

\* A two-message packet was IN_ORDER and the packet after it, starting at the
\* second sequence it covers, was DUPLICATE.
C33_BelowMaxWitness ==
    \E k \in DOMAIN trackers_ :
        /\ ret.op = "determine_order_status"
        /\ <<ret.port, ret.unit>> = k
        /\ ret.status = SEQUENCED_DUPLICATE
        /\ ret.seq = trackers_[k].last_confirmed_seq
        /\ firstSeq[k] < ret.seq - 1
        /\ covered[k] = firstSeq[k] .. ret.seq

\* C34: every call of determine_order_status terminates, for every sequence,
\* count and reachable channel state.
C34_AlwaysTerminates == ~hung

\* C35: per channel, last_confirmed_seq and highest_seen_seq never decrease
\* across calls of determine_order_status, a channel that has seen its first
\* packet keeps its state until clear(), and its last_confirmed_seq is
\* never 0.
C35_Monotonic ==
    [][/\ ret'.op = "determine_order_status"
          => \A k \in DOMAIN trackers_ :
                 /\ k \in DOMAIN trackers_'
                 /\ trackers_'[k].last_confirmed_seq >= trackers_[k].last_confirmed_seq
                 /\ trackers_'[k].highest_seen_seq >= trackers_[k].highest_seen_seq
       /\ \A k \in DOMAIN trackers_' : trackers_'[k].last_confirmed_seq # 0]_vars

\* A channel whose first packet was at the largest uint32_t has received a
\* lower sequence since, which went to pending; last_confirmed_seq and
\* highest_seen_seq are still the largest uint32_t.
C35_Witness ==
    \E k \in DOMAIN trackers_ :
        /\ firstSeq[k] = MaxU32
        /\ trackers_[k].last_confirmed_seq = MaxU32
        /\ trackers_[k].highest_seen_seq = MaxU32
        /\ trackers_[k].pending_sequences # {}
        /\ ret.op = "determine_order_status"
        /\ <<ret.port, ret.unit>> = k
        /\ ret.seq < MaxU32

\* The verdict that comparing s with last_confirmed_seq alone gives, in
\* unbounded integers.
VerdictBy(s, last_confirmed) ==
    IF s <= last_confirmed THEN SEQUENCED_DUPLICATE
    ELSE IF s = last_confirmed + 1 THEN SEQUENCED_IN_ORDER
    ELSE SEQUENCED_OUT_OF_ORDER_EARLY

\* C36: on a channel that has seen its first packet, the verdict for a
\* sequenced packet is DUPLICATE if s <= last_confirmed_seq, IN_ORDER if
\* s = last_confirmed_seq + 1 and EARLY if s > last_confirmed_seq + 1,
\* whatever count, highest_seen_seq and pending are; and a packet whose
\* sequences are all in pending already is EARLY again and leaves pending
\* and highest_seen_seq unchanged.
C36_VerdictByLastConfirmed ==
    [][(SequencedCall /\ RetKey \in DOMAIN trackers_)
       => LET old == trackers_[RetKey]
              new == trackers_'[RetKey]
          IN  /\ ret'.status = VerdictBy(ret'.seq, old.last_confirmed_seq)
              /\ Covers(ret'.seq, ret'.count) \subseteq old.pending_sequences
                 => /\ ret'.status = SEQUENCED_OUT_OF_ORDER_EARLY
                    /\ new.pending_sequences = old.pending_sequences
                    /\ new.highest_seen_seq = old.highest_seen_seq]_vars

\* The same for the calls that return on a channel whose last_confirmed_seq
\* is below the largest uint32_t, the repeated packet being one that starts
\* after last_confirmed_seq + 1.
C36_BelowMaxVerdict ==
    [][(SequencedCall /\ Returned /\ RetKey \in DOMAIN trackers_
        /\ trackers_[RetKey].last_confirmed_seq < MaxU32)
       => LET old == trackers_[RetKey]
              new == trackers_'[RetKey]
          IN  /\ ret'.status = VerdictBy(ret'.seq, old.last_confirmed_seq)
              /\ (/\ Covers(ret'.seq, ret'.count) \subseteq old.pending_sequences
                  /\ ret'.seq > old.last_confirmed_seq + 1)
                 => /\ ret'.status = SEQUENCED_OUT_OF_ORDER_EARLY
                    /\ new.pending_sequences = old.pending_sequences
                    /\ new.highest_seen_seq = old.highest_seen_seq]_vars

\* C37: on every channel, every sequence covered by a received sequenced
\* packet is <= last_confirmed_seq or a member of pending, and the sequences
\* between last_confirmed_seq and highest_seen_seq that are not in pending
\* are exactly those never received.
C37_NothingForgotten ==
    ~hung => \A k \in DOMAIN trackers_ :
                 /\ \A x \in covered[k] :
                        \/ x <= trackers_[k].last_confirmed_seq
                        \/ x \in trackers_[k].pending_sequences
                 /\ \A x \in trackers_[k].last_confirmed_seq + 1 .. trackers_[k].highest_seen_seq :
                        x \notin trackers_[k].pending_sequences <=> x \notin covered[k]

\* C38: in every record submitted to the journal, packet_type is DATA if and
\* only if sequence > 0 if and only if order_status is not UNSEQUENCED; and
\* (heartbeats being skipped) no submitted record has packet_type HEARTBEAT.
C38_RecordsConsistent ==
    \A i \in 1 .. Len(submitted) :
        LET r == submitted[i].record
        IN  /\ (r.packet_type = PacketType_DATA) <=> (r.sequence > 0)
            /\ (r.sequence > 0) <=> (r.order_status # UNSEQUENCED)
            /\ r.packet_type # PacketType_HEARTBEAT

\* A heartbeat was skipped and an administrative and a data packet were
\* submitted.
C38_Witness ==
    /\ stats_.heartbeats_skipped = 1
    /\ Len(submitted) = 2
    /\ \E i, j \in 1 .. 2 :
          /\ submitted[i].record.packet_type = PacketType_ADMIN
          /\ submitted[i].record.order_status = UNSEQUENCED
          /\ submitted[j].record.packet_type = PacketType_DATA
          /\ submitted[j].record.order_status = SEQUENCED_FIRST

\* The number of verdicts in S the tracker has returned to process_packet:
\* each verdict returned is the order_status of the entry submitted for
\* that packet.
VerdictsIn(S) == Cardinality({i \in 1 .. Len(submitted) : submitted[i].record.order_status \in S})

\* C39: out_of_order_packets is the number of EARLY plus LATE verdicts the
\* tracker has returned, duplicate_packets the number of DUPLICATE verdicts,
\* and out_of_order_packets + duplicate_packets <= data_packets.
C39_OrderCounters ==
    /\ stats_.out_of_order_packets
          = VerdictsIn({SEQUENCED_OUT_OF_ORDER_EARLY, SEQUENCED_OUT_OF_ORDER_LATE})
    /\ stats_.duplicate_packets = VerdictsIn({SEQUENCED_DUPLICATE})
    /\ stats_.out_of_order_packets + stats_.duplicate_packets <= stats_.data_packets

\* Three data packets were processed: one FIRST, one DUPLICATE, one EARLY.
C39_Witness ==
    /\ stats_.data_packets = 3
    /\ stats_.out_of_order_packets = 1
    /\ stats_.duplicate_packets = 1
    /\ Len(submitted) = 3

\* The step is taken by a signal handler: the UDP handler is one step, which
\* counts the signal; the handler of the ZeroMQ launcher is the steps that
\* move zmq.handler.
HandlerStep == signals' # signals \/ zmq'.handler # zmq.handler

\* C31: a step of a signal handler changes nothing but the stop flag
\* (capturing_, running_): no flush, no report, no change of the tracker, the
\* statistics or the journal, no exit of the process.
C31_HandlerOnlySetsFlag ==
    [][HandlerStep
       => /\ flushes' = flushes
          /\ reports' = reports
          /\ trackers_' = trackers_
          /\ stats_' = stats_
          /\ UNCHANGED <<submitted, journalVars, sinkVars>>
          /\ UNCHANGED <<pc, steps, exit_code, sockets_open>>
          /\ zmq'.connected = zmq.connected]_vars

\* The callback is called in this step.
Delivery == call' # call

\* C32: the ZeroMQ ingress calls the callback with what the UDP ingress
\* passes for the same datagrams: the k-th datagram delivered has packet_id
\* k (1 for the first), the port it arrived on, its bytes and its length.
C32_ZmqDeliversAsUdp ==
    [][Delivery
       => /\ call'.packet_id = stats_.total_packets + 1
          /\ call'.port \in Ports
          /\ call'.buffer \in CaptureDatagramsOn(call'.port)
          /\ call'.len = call'.buffer.len]_vars

\* What the ZeroMQ ingress does pass: the port, bytes and length of the
\* datagram, and a packet_id that starts at 0.
C32_ZmqDeliversFromZero ==
    [][Delivery
       => /\ call'.packet_id = stats_.total_packets
          /\ call'.port \in Ports
          /\ call'.buffer \in CaptureDatagramsOn(call'.port)
          /\ call'.len = call'.buffer.len
          /\ call'.src_ip = ZmqPush]_vars

====
